---- MODULE Spec2Model ----
(***************************************************************************)
(* Model of the copr dist-git importer (dist_git_importer.py), of the      *)
(* custom-script SRPM provider (copr_rpmbuild/providers/custom.py) and of  *)
(* the frontend's views of builds (coprs_builds.py).                       *)
(*                                                                         *)
(* The importer is a single-threaded polling loop.  Its position is pc;    *)
(* every external interaction (HTTP request, subprocess, helper script,    *)
(* import routine) is one step whose outcome is chosen from the outcomes   *)
(* that interaction can have.  A raised Python exception is the variable   *)
(* exc; it travels to the handler that the source gives it.                *)
(*                                                                         *)
(* tempfile.mkdtemp and shutil.rmtree are taken to succeed.                *)
(***************************************************************************)
EXTENDS Integers, Sequences, FiniteSets, TLC

(* ------------------------------ bounds -------------------------------- *)

\* jobs the frontend ever puts on the import queue
MaxJobs == 2

\* polls the loop makes before it only waits for the stop request
MaxPolls == 2

\* lines of form.pkgs in a submission of the frontend's URL build form
MaxPkgs == 3

\* requests the frontend handles
MaxRequests == 2

(* --------------------------- SourceType ------------------------------- *)

SRPM_LINK == 1

SRPM_UPLOAD == 2

GIT_AND_TITO == 3

GIT_AND_MOCK == 4

\* a source_type value outside the enumeration
UNKNOWN_TYPE == GIT_AND_MOCK + 1

KnownSourceTypes == {SRPM_LINK, SRPM_UPLOAD, GIT_AND_TITO, GIT_AND_MOCK}

(* --------------------------- exceptions ------------------------------- *)

NoExc == [type |-> "none", arg |-> ""]

Raise(t, a) == [type |-> t, arg |-> a]

\* FailTypeEnum(name): the kind carried by a GitAndTitoException; str(e) in
\* do_import turns it into the string that is posted.
FailTypeEnum(name) == name

\* The kinds of the failure payload.
ErrorKinds ==
  { "git_clone_failed", "tito_wrong_directory_in_git", "tito_git_checkout_error",
    "tito_srpm_build_error", "srpm_download_failed", "git_import_failed",
    "srpm_query_failed", "unknown_error" }

(* ------------------------- subprocess results ------------------------- *)

\* Popen(...).communicate(): the launch raises OSError, or the process ends
\* with some standard error text (error) and an exit code (returncode).
PopenResults ==
  { [oserror |-> TRUE, error |-> FALSE, returncode |-> 0] } \cup
  [oserror : {FALSE}, error : BOOLEAN, returncode : {0, 1}]

\* subprocess.call(...): the exit code is returned (and dropped by the
\* callers), or the launch raises OSError.
CallResults == {"zero", "nonzero", "oserror"}

(* ------------------------------- jobs --------------------------------- *)

Branches == {"", "master", "devel"}

\* A job of the frontend's import list.  missing names the required key
\* that the job lacks: "source_type" of the envelope, or "payload" for a
\* key of source_json that the job's source type needs.
NoJob == [task_id |-> 0, source_type |-> UNKNOWN_TYPE, missing |-> "none", git_branch |-> ""]

JobShapes ==
  [source_type : {SRPM_LINK, SRPM_UPLOAD}, missing : {"none", "payload"}, git_branch : {""}]
  \cup [source_type : {GIT_AND_TITO, GIT_AND_MOCK}, missing : {"none"}, git_branch : Branches]
  \cup [source_type : {GIT_AND_TITO, GIT_AND_MOCK}, missing : {"payload"}, git_branch : {""}]
  \cup [source_type : {UNKNOWN_TYPE}, missing : {"none", "source_type"}, git_branch : {""}]

MkJob(id, s) ==
  [task_id |-> id, source_type |-> s.source_type, missing |-> s.missing,
   git_branch |-> s.git_branch]

(* ----------------------------- ImportTask ----------------------------- *)

NoTask ==
  [task_id |-> 0, user |-> "None", project |-> "None", source_type |-> UNKNOWN_TYPE,
   git_branch |-> "", package_name |-> "None", package_version |-> "None",
   git_hash |-> "None"]

\* from_dict without the rejection of a source type outside the enumeration
from_dictAnyType(job) ==
  IF job.missing = "source_type"
    THEN [exc |-> Raise("KeyError", "source_type"), task |-> NoTask]
  ELSE IF job.source_type \in KnownSourceTypes /\ job.missing = "payload"
    THEN [exc |-> Raise("KeyError", "payload"), task |-> NoTask]
  ELSE [exc |-> NoExc,
        task |-> [task_id |-> job.task_id, user |-> "user", project |-> "project",
                  source_type |-> job.source_type, git_branch |-> job.git_branch,
                  package_name |-> "None", package_version |-> "None",
                  git_hash |-> "None"]]

\* ImportTask.from_dict: the task, or the exception the decoding raises.
from_dict(job) ==
  IF job.missing = "source_type"
    THEN [exc |-> Raise("KeyError", "source_type"), task |-> NoTask]
  ELSE IF job.source_type \in KnownSourceTypes /\ job.missing = "payload"
    THEN [exc |-> Raise("KeyError", "payload"), task |-> NoTask]
  ELSE IF job.source_type \notin KnownSourceTypes
    THEN [exc |-> Raise("PackageImportException", "unknown source type"), task |-> NoTask]
  ELSE [exc |-> NoExc,
        task |-> [task_id |-> job.task_id, user |-> "user", project |-> "project",
                  source_type |-> job.source_type, git_branch |-> job.git_branch,
                  package_name |-> "None", package_version |-> "None",
                  git_hash |-> "None"]]

\* reponame without the test for a missing part
reponameUnchecked(t) == t.user \o "/" \o t.project \o "/" \o t.package_name

\* ImportTask.reponame
reponame(t) ==
  IF t.user = "None" \/ t.project = "None" \/ t.package_name = "None"
    THEN "None"
    ELSE t.user \o "/" \o t.project \o "/" \o t.package_name

\* ImportTask.get_dict_for_frontend
get_dict_for_frontend(t) ==
  [task_id |-> t.task_id, pkg_name |-> t.package_name, pkg_version |-> t.package_version,
   repo_name |-> reponame(t), git_hash |-> t.git_hash]

\* the failure payloads built in do_import's except clauses
FailureDict(t, kind) == [task_id |-> t.task_id, error |-> kind]

IsFailure(data) == "error" \in DOMAIN data

IsSuccess(data) == "git_hash" \in DOMAIN data

(* --------------------------- SourceProvider --------------------------- *)

\* the selection with the download provider as the default
SelectProviderWithDefault(source_type) ==
  IF source_type = GIT_AND_TITO THEN "GitAndTitoProvider"
  ELSE IF source_type = GIT_AND_MOCK THEN "GitAndMockProvider"
  ELSE "SrpmUrlProvider"

\* SourceProvider.__init__: the provider class for a source type
SelectProvider(source_type) ==
  IF source_type = SRPM_LINK THEN "SrpmUrlProvider"
  ELSE IF source_type = SRPM_UPLOAD THEN "SrpmUrlProvider"
  ELSE IF source_type = GIT_AND_TITO THEN "GitAndTitoProvider"
  ELSE IF source_type = GIT_AND_MOCK THEN "GitAndMockProvider"
  ELSE "raise"

GitProviders == {"GitAndTitoProvider", "GitAndMockProvider"}

(* --------------------------- the frontend ----------------------------- *)

\* The queue owner drops a job from its import list once a payload for the
\* job's task_id has been delivered to the completion endpoint.
FrontendImportCompleted(q, id) == SelectSeq(q, LAMBDA j : j # id)

(* ------------------------------ state --------------------------------- *)

VARIABLES
  pc,          \* position of the importer
  is_running,  \* DistGitImporter.is_running
  stopped_at,  \* where the stop request found the loop: "never", "task", "loop"
  queue,       \* the frontend's import list, oldest first, as task ids
  head,        \* the job the frontend serves as builds[0], once it served it
  submitted,   \* jobs the frontend has put on the list so far
  polls,       \* polls made so far
  lastjob,     \* builds[0] of the last poll response, NoJob if it had none
  terminal,    \* outcome reached by lastjob: "none", "NOTIFIED", "FAILED"
  task,        \* the ImportTask being processed
  exc,         \* the exception in flight
  cause,       \* the step that raised it
  posts,       \* payloads handed to post_back since the last poll
  stages,      \* do_import's stages run for the task, with how each ended
  plog,        \* the provider's steps run for the task
  dirs,        \* temporary directories of the current task that exist
  leaked,      \* a temporary directory left behind by an earlier task exists
  srpm_file,   \* a file exists at fetched_srpm_path
  git_subdir,  \* GitProvider.git_subdir: the path's components, << >> for None
  repo_head,   \* the branch checked out in the clone, "none" before the clone
  tmp_dest,    \* names of the entries of GitProvider.tmp_dest
  last,        \* the last external call made for the task, with its outcome
  cp_pc,       \* position of CustomProvider.produce_srpm
  cp_conf,     \* what source_json gave CustomProvider.__init__
  cp_cmd,      \* options on the copr-sources-custom command line
  cp_files,    \* files written to outdir
  cp_sandbox,  \* the mock build root: "absent", "present", "scrubbed"
  cp_srcdir,   \* the staging directory workdir/srcdir exists
  cp_log,      \* the external steps produce_srpm has run
  cp_exc,      \* the exception that ended produce_srpm
  cp_last,     \* the last external call of produce_srpm, with its outcome
  fe_pc,       \* position of the frontend in the request it handles
  fe_request,  \* the request: its view, the build it names, its number, and the
               \* number of messages the session held when it came in
  fe_form,     \* the submitted form and the factory of its view
  fe_i,        \* the package the factory's loop is at
  fe_session,  \* builds added to the database session, not committed
  fe_db,       \* builds committed to the database
  fe_flashes,  \* the messages flashed
  fe_calls,    \* the commits and rollbacks of the session
  fe_exc,      \* the exception the build factory raised
  fe_response  \* what the view returned: "none", "redirect", "form", "builds"

\* the importer's variables
ivars ==
  << pc, is_running, stopped_at, queue, head, submitted, polls, lastjob, terminal, task, exc,
     cause,
     posts, stages, plog, dirs, leaked, srpm_file, git_subdir, repo_head, tmp_dest,
     last >>

\* the custom provider's variables
cpvars ==
  << cp_pc, cp_conf, cp_cmd, cp_files, cp_sandbox, cp_srcdir, cp_log, cp_exc, cp_last >>

\* the frontend's variables
fevars ==
  << fe_pc, fe_request, fe_form, fe_i, fe_session, fe_db, fe_flashes, fe_calls, fe_exc,
     fe_response >>

vars == << ivars, cpvars, fevars >>

\* variables of one task's processing
taskvars ==
  << task, exc, cause, posts, stages, plog, dirs, srpm_file, git_subdir, repo_head, tmp_dest,
     last >>

(* ------------------------------ helpers ------------------------------- *)

\* every exception type of the model derives from Exception, which is what
\* "except Exception" catches
ExceptionTypes ==
  { "PackageImportException", "PackageDownloadException", "PackageQueryException",
    "GitAndTitoException", "KeyError", "ValueError", "OSError", "IOError", "UnboundLocalError",
    "ConnectionError", "Exception" }

\* try_to_obtain_new_task: "except Exception" around the poll and the decoding
ObtainCatches(e) == e.type \in ExceptionTypes

\* post_back_safe letting the error of the post through
PostBackSafeLetsThrough(e) == FALSE

\* post_back_safe: "except Exception" around post_back
PostBackSafeCatches(e) == e.type \in ExceptionTypes

\* do_import's except clauses, in their order: the error string posted for e
ExceptKind(e) ==
  IF e.type = "PackageImportException" THEN "git_import_failed"
  ELSE IF e.type = "PackageDownloadException" THEN "srpm_download_failed"
  ELSE IF e.type = "PackageQueryException" THEN "srpm_query_failed"
  ELSE IF e.type = "GitAndTitoException" THEN e.arg
  ELSE "unknown_error"

\* the stage that is running ends with result r
EndStage(r) == [stages EXCEPT ![Len(stages)].result = r]

\* a stage that starts and ends within one step
WholeStage(n, r) == Append(stages, [name |-> n, result |-> r])

\* the status test with 400 taken as a success
StatusOkThrough400(status) == 200 <= status /\ status <= 400

\* 200 <= r.status_code < 400
StatusOk(status) == 200 <= status /\ status < 400

HttpStatuses == {199, 200, 302, 399, 400, 404}

\* What rpm -qp --qf "%{NAME} %{EPOCH} %{VERSION} %{RELEASE}" can write to its
\* standard output, as the sequence of its blanks (" ", "\t") and of the
\* runs of other characters between them.  A field of the package header is
\* printed as it is, so a field may be empty or hold a blank of its own.
QueryOutputs ==
  { <<"pkg", " ", "0", " ", "1.2", " ", "3">>,
    <<"pkg", " ", "(none)", " ", "1.2", " ", "3">>,
    <<"pkg", " ", "1.2", " ", "3">>,
    << >>,
    <<"pkg", " ", "0", " ", "1.2", " ", "3", " ", "x">>,
    <<"pkg", " ", " ", "0", " ", "1.2", " ", "3">>,
    <<"pkg", "\t", "0", "\t", "1.2", "\t", "3">>,
    <<"pkg", " ", "0", " ", "1.2", " ">>,
    <<"pkg", " ", "3", " ", "1.2", " ", "3">> }

RECURSIVE split(_, _)
\* str.split(sep) with a one-character sep: the pieces of s between the
\* occurrences of sep, empty pieces included
split(s, sep) ==
  IF s = << >> THEN << "" >>
  ELSE LET rest == split(Tail(s), sep)
       IN IF Head(s) = sep
            THEN << "" >> \o rest
            ELSE << Head(s) \o Head(rest) >> \o Tail(rest)

\* the tokens made of decimal digits only
DigitTokens == {"0", "1", "2", "3", "10"}

\* str.isdigit: true of a non-empty string of digits
isdigit(tok) == tok \in DigitTokens

\* the evr string built by pkg_name_evr
Evr(epoch, version, release) ==
  IF isdigit(epoch)
    THEN epoch \o ":" \o version \o "-" \o release
    ELSE version \o "-" \o release

\* pkg_name_evr(srpm_path): the exception it raises, or the (name, evr) pair
\* it returns, for the outcome r of the rpm process and its standard output
pkg_name_evr(r, output) ==
  LET fields == split(output, " ")
  IN IF r.oserror \/ r.error \/ Len(fields) # 4
       THEN [exc |-> Raise("PackageQueryException", "rpm"), name |-> "None", evr |-> "None"]
       ELSE [exc |-> NoExc, name |-> fields[1],
             evr |-> Evr(fields[2], fields[3], fields[4])]

\* names of directory entries, each split at its dots
FileNames ==
  { <<"pkg-1", "src", "rpm">>, <<"other-2", "src", "rpm">>, <<"pkg-1", "noarch", "rpm">>,
    <<"build", "log">>, <<"pkg-1", "src", "rpm", "sig">> }

\* the filter matching every name that ends in ".rpm"
endswith_rpm(f) == Len(f) >= 2 /\ f[Len(f)] = "rpm"

\* f.endswith(".src.rpm")
endswith_src_rpm(f) == Len(f) >= 3 /\ f[Len(f) - 1] = "src" /\ f[Len(f)] = "rpm"

\* GitProvider.copy: dest_srpms = filter(lambda f: f.endswith(".src.rpm"), os.listdir(tmp_dest))
dest_srpms(listing) == {f \in listing : endswith_src_rpm(f)}

\* no external call has been made for the task
NoCall == [step |-> "none"]

(* ------------------------------- Init --------------------------------- *)

\* DistGitImporter.__init__, with an empty import list at the frontend
ImporterInit ==
  /\ pc = "idle"
  /\ is_running = FALSE
  /\ stopped_at = "never"
  /\ queue = << >>
  /\ head = NoJob
  /\ submitted = 0
  /\ polls = 0
  /\ lastjob = NoJob
  /\ terminal = "none"
  /\ task = NoTask
  /\ exc = NoExc
  /\ cause = "none"
  /\ posts = << >>
  /\ stages = << >>
  /\ plog = << >>
  /\ dirs = {}
  /\ leaked = FALSE
  /\ srpm_file = FALSE
  /\ git_subdir = << >>
  /\ repo_head = "none"
  /\ tmp_dest = {}
  /\ last = NoCall

\* no CustomProvider has been constructed
NoConf == [hook_data |-> FALSE, builddeps |-> FALSE, resultdir |-> FALSE]

CustomAbsent ==
  /\ cp_pc = "absent"
  /\ cp_conf = NoConf
  /\ cp_cmd = {}
  /\ cp_files = {}
  /\ cp_sandbox = "absent"
  /\ cp_srcdir = FALSE
  /\ cp_log = << >>
  /\ cp_exc = NoExc
  /\ cp_last = NoCall

\* no submission is being processed
NoForm == [factory |-> "none", valid |-> FALSE, pkgs |-> 0, enable_net |-> FALSE]

\* no request has come in
NoRequest == [view |-> "none", build_id |-> 0, n |-> 0, base |-> 0]

\* no request is being handled by the frontend
FrontendAbsent ==
  /\ fe_pc = "absent"
  /\ fe_request = NoRequest
  /\ fe_form = NoForm
  /\ fe_i = 0
  /\ fe_session = {}
  /\ fe_db = {}
  /\ fe_flashes = << >>
  /\ fe_calls = << >>
  /\ fe_exc = NoExc
  /\ fe_response = "none"

Init == ImporterInit /\ CustomAbsent /\ FrontendAbsent

(* ------------------------- the environment ---------------------------- *)

\* The frontend puts a job on its import list.  The list is read only by
\* the poll, so submissions are taken at the head of the loop.  The importer
\* sees nothing of a job before the job is served as builds[0], so what the
\* job holds is drawn when it is first served (TryToObtainNewTask) and is
\* the same at every later poll.
Submit ==
  /\ pc \in {"idle", "loop"}
  /\ submitted < MaxJobs
  /\ queue' = Append(queue, submitted + 1)
  /\ submitted' = submitted + 1
  /\ UNCHANGED << pc, is_running, stopped_at, head, polls, lastjob, terminal, leaked >>
  /\ UNCHANGED << taskvars, cpvars, fevars >>

\* the positions of the importer between the acquisition of a task and the return
\* of do_import
Processing ==
  {"do_import", "provider", "download", "clone", "dirname", "checkout", "build", "copy",
   "clean", "query", "provision", "import", "import_finally", "refresh", "post", "except",
   "finally"}

\* The stop request: is_running is set to False from outside the loop.
Stop ==
  /\ is_running
  /\ pc \notin {"idle", "exited", "crashed"}
  /\ is_running' = FALSE
  /\ stopped_at' = IF pc \in Processing THEN "task" ELSE "loop"
  /\ UNCHANGED << pc, queue, head, submitted, polls, lastjob, terminal, leaked >>
  /\ UNCHANGED << taskvars, cpvars, fevars >>

(* ------------------------------- run ---------------------------------- *)

\* run: self.is_running = True
Run ==
  /\ pc = "idle"
  /\ pc' = "loop"
  /\ is_running' = TRUE
  /\ UNCHANGED << stopped_at, queue, head, submitted, polls, lastjob, terminal, leaked >>
  /\ UNCHANGED << taskvars, cpvars, fevars >>

\* the loop condition taken as true whatever is_running is
LoopCheckIgnoresStop ==
  /\ pc = "loop"
  /\ polls < MaxPolls
  /\ pc' = "poll"
  /\ UNCHANGED << is_running, stopped_at, queue, head, submitted, polls, lastjob, terminal,
                  leaked >>
  /\ UNCHANGED << taskvars, cpvars, fevars >>

\* run: while self.is_running
LoopCheck ==
  /\ pc = "loop"
  /\ is_running => polls < MaxPolls
  /\ pc' = IF is_running THEN "poll" ELSE "exited"
  /\ UNCHANGED << is_running, stopped_at, queue, head, submitted, polls, lastjob, terminal,
                  leaked >>
  /\ UNCHANGED << taskvars, cpvars, fevars >>

\* try_to_obtain_new_task decoding the last job of the response
TryToObtainLastTask ==
  /\ pc = "poll"
  /\ polls' = polls + 1
  /\ \E response \in {"ok", "raise"}, s \in JobShapes :
       LET got == response = "ok" /\ queue # << >>
           job == IF ~got THEN NoJob
                  ELSE IF head.task_id = queue[Len(queue)] THEN head
                  ELSE MkJob(queue[Len(queue)], s)
           d == IF got THEN from_dict(job) ELSE [exc |-> NoExc, task |-> NoTask]
           e == IF response = "raise" THEN Raise("ConnectionError", "get") ELSE d.exc
       IN /\ lastjob' = job
          /\ head' = IF got THEN job ELSE head
          /\ task' = d.task
          /\ IF e = NoExc
               THEN /\ pc' = IF got THEN "do_import" ELSE "sleep"
                    /\ exc' = NoExc
                    /\ cause' = "none"
               ELSE /\ pc' = IF ObtainCatches(e) THEN "sleep" ELSE "crashed"
                    /\ exc' = IF ObtainCatches(e) THEN NoExc ELSE e
                    /\ cause' = "obtain"
  /\ terminal' = "none"
  /\ posts' = << >>
  /\ stages' = << >>
  /\ plog' = << >>
  /\ UNCHANGED << is_running, stopped_at, queue, submitted, leaked, dirs, srpm_file, git_subdir, repo_head,
                  tmp_dest, last, cpvars, fevars >>

\* try_to_obtain_new_task: the request or the reading of its JSON body may
\* raise; an empty builds list gives no task; otherwise builds[0] is decoded.
\* builds[0] is the job the frontend served before under the same task id,
\* or, for a job served for the first time, a job of any shape.
TryToObtainNewTask ==
  /\ pc = "poll"
  /\ polls' = polls + 1
  /\ \E response \in {"ok", "raise"}, s \in JobShapes :
       LET got == response = "ok" /\ queue # << >>
           job == IF ~got THEN NoJob
                  ELSE IF head.task_id = queue[1] THEN head ELSE MkJob(queue[1], s)
           d == IF got THEN from_dict(job) ELSE [exc |-> NoExc, task |-> NoTask]
           e == IF response = "raise" THEN Raise("ConnectionError", "get") ELSE d.exc
       IN /\ lastjob' = job
          /\ head' = IF got THEN job ELSE head
          /\ task' = d.task
          /\ IF e = NoExc
               THEN /\ pc' = IF got THEN "do_import" ELSE "sleep"
                    /\ exc' = NoExc
                    /\ cause' = "none"
               ELSE /\ pc' = IF ObtainCatches(e) THEN "sleep" ELSE "crashed"
                    /\ exc' = IF ObtainCatches(e) THEN NoExc ELSE e
                    /\ cause' = "obtain"
  /\ terminal' = "none"
  /\ posts' = << >>
  /\ stages' = << >>
  /\ plog' = << >>
  /\ UNCHANGED << is_running, stopped_at, queue, submitted, leaked, dirs, srpm_file, git_subdir, repo_head,
                  tmp_dest, last, cpvars, fevars >>

\* run: time.sleep(self.opts.sleep_time)
Sleep ==
  /\ pc = "sleep"
  /\ pc' = "loop"
  /\ UNCHANGED << is_running, stopped_at, queue, head, submitted, polls, lastjob, terminal,
                  leaked >>
  /\ UNCHANGED << taskvars, cpvars, fevars >>

(* ----------------------------- do_import ------------------------------ *)

\* what a step of do_import leaves alone unless it says otherwise
loopvars == << is_running, stopped_at, head, submitted, polls, lastjob, cpvars, fevars >>

\* do_import: tmp_root = tempfile.mkdtemp()
DoImportBegin ==
  /\ pc = "do_import"
  /\ pc' = "provider"
  /\ leaked' = (leaked \/ dirs # {})
  /\ dirs' = {"tmp_root"}
  /\ srpm_file' = FALSE
  /\ git_subdir' = << >>
  /\ repo_head' = "none"
  /\ tmp_dest' = {}
  /\ UNCHANGED << queue, terminal, task, exc, cause, posts, stages, plog, last >>
  /\ UNCHANGED loopvars

\* SourceProvider(task, path).get_srpm(): the provider is selected and
\* constructed; GitProvider.__init__ makes its two temporary directories.
SourceProviderGetSrpm ==
  /\ pc = "provider"
  /\ LET p == SelectProvider(task.source_type)
     IN /\ pc' = IF p = "raise" THEN "except"
                 ELSE IF p = "SrpmUrlProvider" THEN "download" ELSE "clone"
        /\ exc' = IF p = "raise"
                    THEN Raise("PackageImportException", "unknown source type")
                    ELSE NoExc
        /\ cause' = IF p = "raise" THEN "select" ELSE cause
        /\ stages' = WholeStage("source", IF p = "raise" THEN "raised" ELSE "running")
        /\ dirs' = IF p \in GitProviders THEN dirs \cup {"git_tmp", "git_tmp_dest"} ELSE dirs
  /\ UNCHANGED << queue, terminal, task, posts, plog, leaked, srpm_file, git_subdir, repo_head,
                  tmp_dest, last >>
  /\ UNCHANGED loopvars

\* SrpmUrlProvider.get_srpm asking once more after a first request that raised
SrpmUrlGetSrpmRetrying ==
  /\ pc = "download"
  /\ \E get \in {"ok", "raise"}, status \in HttpStatuses,
        write \in {"ok", "open_error", "write_error"} :
       LET fetched == get = "ok" /\ StatusOk(status)
           good == fetched /\ write = "ok"
           again == get = "raise" /\ plog = << >>
       IN /\ pc' = IF again THEN "download" ELSE IF good THEN "query" ELSE "except"
          /\ exc' = IF good \/ again THEN NoExc
                    ELSE Raise("PackageDownloadException", "url")
          /\ cause' = IF good \/ again THEN cause ELSE "download"
          /\ srpm_file' = (fetched /\ write # "open_error")
          /\ stages' = IF again THEN stages
                       ELSE EndStage(IF good THEN "ok" ELSE "raised")
          /\ last' = [step |-> "download", get |-> get,
                      status |-> IF get = "ok" THEN status ELSE 0,
                      write |-> IF fetched THEN write ELSE "not_run"]
  /\ plog' = Append(plog, "download")
  /\ UNCHANGED << queue, terminal, task, posts, dirs, leaked, git_subdir, repo_head, tmp_dest >>
  /\ UNCHANGED loopvars

\* SrpmUrlProvider.get_srpm
SrpmUrlGetSrpm ==
  /\ pc = "download"
  /\ \E get \in {"ok", "raise"}, status \in HttpStatuses,
        write \in {"ok", "open_error", "write_error"} :
       LET fetched == get = "ok" /\ StatusOk(status)
           good == fetched /\ write = "ok"
       IN /\ pc' = IF good THEN "query" ELSE "except"
          /\ exc' = IF good THEN NoExc ELSE Raise("PackageDownloadException", "url")
          /\ cause' = IF good THEN cause ELSE "download"
          /\ srpm_file' = (fetched /\ write # "open_error")
          /\ stages' = EndStage(IF good THEN "ok" ELSE "raised")
          /\ last' = [step |-> "download", get |-> get,
                      status |-> IF get = "ok" THEN status ELSE 0,
                      write |-> IF fetched THEN write ELSE "not_run"]
  /\ plog' = Append(plog, "download")
  /\ UNCHANGED << queue, terminal, task, posts, dirs, leaked, git_subdir, repo_head, tmp_dest >>
  /\ UNCHANGED loopvars

\* a step of the git provider raises GitAndTitoException(FailTypeEnum(kind))
GitRaise(kind, c) ==
  /\ pc' = "except"
  /\ exc' = Raise("GitAndTitoException", FailTypeEnum(kind))
  /\ cause' = c
  /\ stages' = EndStage("raised")

\* The branch that HEAD of the repository at task.git_url names, which is
\* the branch a clone has checked out.
RepoDefaults == {"master", "devel"}

\* What the clone has checked out after git clone ended as r: "none" when
\* there is no clone, the branch that HEAD of the repository names, or
\* "detached" when that HEAD names no branch.  A git that could not be
\* launched made no clone; of a git that ran, neither its exit code nor what
\* it wrote to its standard error tells what it left.
CloneHeads(r, default) ==
  IF r.oserror THEN {"none"} ELSE {"none", default, "detached"}

\* GitProvider.clone, 1: git clone; the step raises when git could not be
\* launched or wrote to its standard error, and reads nothing else
GitClone ==
  /\ pc = "clone"
  /\ plog' = Append(plog, "clone")
  /\ \E r \in PopenResults, default \in RepoDefaults :
       /\ last' = [step |-> "clone", r |-> r]
       /\ repo_head' \in CloneHeads(r, default)
       /\ IF r.oserror \/ r.error
            THEN GitRaise("git_clone_failed", "clone")
            ELSE /\ pc' = "dirname"
                 /\ UNCHANGED << exc, cause, stages >>
  /\ UNCHANGED << queue, terminal, task, posts, dirs, leaked, srpm_file, git_subdir,
                  tmp_dest >>
  /\ UNCHANGED loopvars

\* What ls can write for the scratch directory: the names of its entries, one
\* a line, each name as the sequence of the words between its blanks.
Listings ==
  { << >>,
    << << "repo" >> >>,
    << << "my", "repo" >> >>,
    << << "repo" >>, << "other" >> >> }

\* output.split() of a listing: the words of all its lines
RECURSIVE words(_)
words(listing) ==
  IF listing = << >> THEN << >> ELSE Head(listing) \o words(Tail(listing))

\* "{}/{}/{}".format(self.tmp, git_dir_name, self.task.tito_git_dir)
SubdirPath(git_dir_name) == << "git_tmp", git_dir_name, "tito_git_dir" >>

\* GitProvider.clone, 1b, taking the first word of a listing that has any
GitDirNameFirstWord ==
  /\ pc = "dirname"
  /\ plog' = Append(plog, "dirname")
  /\ \E r \in PopenResults, listing \in Listings :
       LET output == IF r.oserror THEN << >> ELSE listing
       IN /\ last' = [step |-> "dirname", r |-> r, entries |-> output]
          /\ IF r.oserror \/ r.error \/ Len(words(output)) = 0
               THEN /\ GitRaise("tito_wrong_directory_in_git", "dirname")
                    /\ UNCHANGED git_subdir
               ELSE /\ pc' = "checkout"
                    /\ git_subdir' = SubdirPath(words(output)[1])
                    /\ UNCHANGED << exc, cause, stages >>
  /\ UNCHANGED << queue, terminal, task, posts, dirs, leaked, srpm_file, repo_head,
                  tmp_dest >>
  /\ UNCHANGED loopvars

\* GitProvider.clone, 1b: ls in the scratch directory; the directory name is
\* taken only if output and len(output.split()) == 1
GitDirName ==
  /\ pc = "dirname"
  /\ plog' = Append(plog, "dirname")
  /\ \E r \in PopenResults, listing \in Listings :
       LET output == IF r.oserror THEN << >> ELSE listing
       IN /\ last' = [step |-> "dirname", r |-> r, entries |-> output]
          /\ IF r.oserror \/ r.error \/ Len(words(output)) # 1
               THEN /\ GitRaise("tito_wrong_directory_in_git", "dirname")
                    /\ UNCHANGED git_subdir
               ELSE /\ pc' = "checkout"
                    /\ git_subdir' = SubdirPath(words(output)[1])
                    /\ UNCHANGED << exc, cause, stages >>
  /\ UNCHANGED << queue, terminal, task, posts, dirs, leaked, srpm_file, repo_head,
                  tmp_dest >>
  /\ UNCHANGED loopvars

\* GitProvider.checkout: if self.task.git_branch and self.task.git_branch != 'master'
NeedsCheckout(t) == t.git_branch # "" /\ t.git_branch # "master"

\* What is checked out after git checkout of the name branch ended as r in a
\* clone that had old checked out.  A git that could not be launched, or
\* that had no clone to work in, changed nothing.  A git that ran switched to
\* the branch, or left HEAD where it was (the name is a file of the tree,
\* which it restored; or it failed), or detached HEAD (the name is a tag);
\* neither its exit code nor its standard error tells which.
CheckoutHeads(r, old, branch) ==
  IF r.oserror \/ old = "none" THEN {old} ELSE {old, branch, "detached"}

\* GitProvider.checkout judging the process by its exit code
GitCheckoutByExitCode ==
  /\ pc = "checkout"
  /\ plog' = Append(plog, IF NeedsCheckout(task) THEN "checkout" ELSE "checkout_skipped")
  /\ \E r \in PopenResults :
       /\ last' = IF NeedsCheckout(task) THEN [step |-> "checkout", r |-> r] ELSE last
       /\ repo_head' \in IF NeedsCheckout(task)
                           THEN CheckoutHeads(r, repo_head, task.git_branch)
                           ELSE {repo_head}
       /\ IF NeedsCheckout(task) /\ (r.oserror \/ r.returncode # 0)
            THEN GitRaise("tito_git_checkout_error", "checkout")
            ELSE /\ pc' = "build"
                 /\ UNCHANGED << exc, cause, stages >>
  /\ UNCHANGED << queue, terminal, task, posts, dirs, leaked, srpm_file, git_subdir,
                  tmp_dest >>
  /\ UNCHANGED loopvars

\* GitProvider.checkout: git checkout is run for a branch other than
\* 'master'; the step raises when git could not be launched or wrote to its
\* standard error, and reads nothing else
GitCheckout ==
  /\ pc = "checkout"
  /\ plog' = Append(plog, IF NeedsCheckout(task) THEN "checkout" ELSE "checkout_skipped")
  /\ \E r \in PopenResults :
       /\ last' = IF NeedsCheckout(task) THEN [step |-> "checkout", r |-> r] ELSE last
       /\ repo_head' \in IF NeedsCheckout(task)
                           THEN CheckoutHeads(r, repo_head, task.git_branch)
                           ELSE {repo_head}
       /\ IF NeedsCheckout(task) /\ (r.oserror \/ r.error)
            THEN GitRaise("tito_git_checkout_error", "checkout")
            ELSE /\ pc' = "build"
                 /\ UNCHANGED << exc, cause, stages >>
  /\ UNCHANGED << queue, terminal, task, posts, dirs, leaked, srpm_file, git_subdir,
                  tmp_dest >>
  /\ UNCHANGED loopvars

\* what a build tool whose run makes the build stage raise can have left in
\* tmp_dest
FailedBuildOutputs == SUBSET { <<"build", "log">>, <<"pkg-1", "src", "rpm">> }

\* GitAndTitoProvider.build: the tool leaves the entries files in tmp_dest
GitAndTitoBuild ==
  /\ pc = "build"
  /\ SelectProvider(task.source_type) = "GitAndTitoProvider"
  /\ plog' = Append(plog, "build")
  /\ \E r \in PopenResults, files \in SUBSET FileNames :
       /\ last' = [step |-> "build", r |-> r]
       /\ IF r.oserror \/ r.error
            THEN /\ GitRaise("tito_srpm_build_error", "build")
                 /\ tmp_dest' = IF ~r.oserror /\ files \in FailedBuildOutputs
                                 THEN files ELSE tmp_dest
            ELSE /\ pc' = "copy"
                 /\ tmp_dest' = files
                 /\ UNCHANGED << exc, cause, stages >>
  /\ UNCHANGED << queue, terminal, task, posts, dirs, leaked, srpm_file, git_subdir, repo_head >>
  /\ UNCHANGED loopvars

\* names of the entries of the source subdirectory, each split at its dots
SourceFiles == { <<"pkg", "spec">>, <<"other", "spec">>, <<"pkg", "spec", "in">> }

\* x.endswith(".spec")
endswith_spec(x) == Len(x) >= 2 /\ x[Len(x)] = "spec"

\* specs = filter(lambda x: x.endswith(".spec"), os.listdir(self.git_subdir))
specs(listing) == {x \in listing : endswith_spec(x)}

\* GitAndMockProvider.build judging mock by its standard error, as the tito
\* build does
GitAndMockBuildByStderr ==
  /\ pc = "build"
  /\ SelectProvider(task.source_type) = "GitAndMockProvider"
  /\ \E listdir \in {"ok", "oserror"}, listing \in SUBSET SourceFiles, r \in PopenResults,
        files \in SUBSET FileNames :
       LET found == Cardinality(specs(listing))
       IN /\ plog' = Append(plog, IF listdir = "ok" /\ found = 1 THEN "build" ELSE "build_not_run")
          /\ last' = IF listdir = "oserror" THEN [step |-> "listdir"]
                     ELSE IF found # 1 THEN [step |-> "listdir", listing |-> listing]
                     ELSE [step |-> "build", r |-> r, listing |-> listing]
          /\ IF listdir = "oserror"
               THEN /\ pc' = "except"
                    /\ exc' = Raise("OSError", "listdir")
                    /\ cause' = "listdir"
                    /\ stages' = EndStage("raised")
                    /\ UNCHANGED tmp_dest
               ELSE IF found = 1 /\ r.oserror
                 THEN /\ pc' = "except"
                      /\ exc' = Raise("UnboundLocalError", "error")
                      /\ cause' = "mock_launch"
                      /\ stages' = EndStage("raised")
                      /\ UNCHANGED tmp_dest
               ELSE IF found # 1 \/ r.error
                 THEN /\ GitRaise("tito_srpm_build_error", "build")
                      /\ tmp_dest' = IF found = 1 /\ files \in FailedBuildOutputs
                                      THEN files ELSE tmp_dest
                 ELSE /\ pc' = "copy"
                      /\ tmp_dest' = files
                      /\ UNCHANGED << exc, cause, stages >>
  /\ UNCHANGED << queue, terminal, task, posts, dirs, leaked, srpm_file, git_subdir, repo_head >>
  /\ UNCHANGED loopvars

\* GitAndMockProvider.build: os.listdir(git_subdir) raises or gives the
\* listing; mock is run only with exactly one spec file in it, and leaves the
\* entries files in tmp_dest.  When the launch raises OSError, the handler's
\* log.error(error) reads a name that was never bound, and that error is what
\* leaves build.
GitAndMockBuild ==
  /\ pc = "build"
  /\ SelectProvider(task.source_type) = "GitAndMockProvider"
  /\ \E listdir \in {"ok", "oserror"}, listing \in SUBSET SourceFiles, r \in PopenResults,
        files \in SUBSET FileNames :
       LET found == Cardinality(specs(listing))
       IN /\ plog' = Append(plog, IF listdir = "ok" /\ found = 1 THEN "build" ELSE "build_not_run")
          /\ last' = IF listdir = "oserror" THEN [step |-> "listdir"]
                     ELSE IF found # 1 THEN [step |-> "listdir", listing |-> listing]
                     ELSE [step |-> "build", r |-> r, listing |-> listing]
          /\ IF listdir = "oserror"
               THEN /\ pc' = "except"
                    /\ exc' = Raise("OSError", "listdir")
                    /\ cause' = "listdir"
                    /\ stages' = EndStage("raised")
                    /\ UNCHANGED tmp_dest
               ELSE IF found = 1 /\ r.oserror
                 THEN /\ pc' = "except"
                      /\ exc' = Raise("UnboundLocalError", "error")
                      /\ cause' = "mock_launch"
                      /\ stages' = EndStage("raised")
                      /\ UNCHANGED tmp_dest
               ELSE IF found # 1 \/ r.returncode # 0
                 THEN /\ GitRaise("tito_srpm_build_error", "build")
                      /\ tmp_dest' = IF found = 1 /\ files \in FailedBuildOutputs
                                      THEN files ELSE tmp_dest
                 ELSE /\ pc' = "copy"
                      /\ tmp_dest' = files
                      /\ UNCHANGED << exc, cause, stages >>
  /\ UNCHANGED << queue, terminal, task, posts, dirs, leaked, srpm_file, git_subdir, repo_head >>
  /\ UNCHANGED loopvars

\* GitProvider.copy.  shutil.copyfile raises before it has created the target
\* (open_error: the source cannot be opened, the target cannot be created) or
\* while it copies (write_error), and then leaves at target_path the part it
\* has written.
GitCopy ==
  /\ pc = "copy"
  /\ plog' = Append(plog, "copy")
  /\ \E copyfile \in {"ok", "open_error", "write_error"} :
       IF Cardinality(dest_srpms(tmp_dest)) # 1
         THEN /\ GitRaise("tito_srpm_build_error", "copy")
              /\ last' = [step |-> "copy", copyfile |-> "not_run"]
              /\ UNCHANGED srpm_file
         ELSE IF copyfile # "ok"
           THEN /\ pc' = "except"
                /\ exc' = Raise("IOError", "copyfile")
                /\ cause' = "copyfile"
                /\ stages' = EndStage("raised")
                /\ last' = [step |-> "copy", copyfile |-> copyfile]
                /\ srpm_file' = (copyfile = "write_error")
           ELSE /\ pc' = "clean"
                /\ srpm_file' = TRUE
                /\ last' = [step |-> "copy", copyfile |-> copyfile]
                /\ UNCHANGED << exc, cause, stages >>
  /\ UNCHANGED << queue, terminal, task, posts, dirs, leaked, git_subdir, repo_head, tmp_dest >>
  /\ UNCHANGED loopvars

\* GitProvider.clean, after which get_srpm returns
GitClean ==
  /\ pc = "clean"
  /\ plog' = Append(plog, "clean")
  /\ dirs' = dirs \ {"git_tmp", "git_tmp_dest"}
  /\ tmp_dest' = {}
  /\ stages' = EndStage("ok")
  /\ pc' = "query"
  /\ UNCHANGED << queue, terminal, task, exc, cause, posts, leaked, srpm_file, git_subdir, repo_head,
                  last >>
  /\ UNCHANGED loopvars

\* a step of do_import's try block raises e
StageRaise(n, e, c) ==
  /\ pc' = "except"
  /\ exc' = e
  /\ cause' = c
  /\ stages' = WholeStage(n, "raised")

\* pkg_name_evr with the query's failure swallowed: the pipeline goes on
PkgNameEvrSwallows ==
  /\ pc = "query"
  /\ \E r \in PopenResults, output \in QueryOutputs :
       LET q == pkg_name_evr(r, IF r.oserror THEN << >> ELSE output)
       IN /\ last' = [step |-> "query", r |-> r,
                      output |-> IF r.oserror THEN << >> ELSE output]
          /\ IF q.exc # NoExc
               THEN /\ pc' = "provision"
                    /\ stages' = WholeStage("inspect", "raised")
                    /\ UNCHANGED << task, exc, cause >>
               ELSE /\ pc' = "provision"
                    /\ task' = [task EXCEPT !.package_name = q.name,
                                            !.package_version = q.evr]
                    /\ stages' = WholeStage("inspect", "ok")
                    /\ UNCHANGED << exc, cause >>
  /\ UNCHANGED << queue, terminal, posts, plog, dirs, leaked, srpm_file, git_subdir, repo_head,
                  tmp_dest >>
  /\ UNCHANGED loopvars

\* pkg_name_evr, and the assignment of its result to the task
PkgNameEvr ==
  /\ pc = "query"
  /\ \E r \in PopenResults, output \in QueryOutputs :
       LET q == pkg_name_evr(r, IF r.oserror THEN << >> ELSE output)
       IN /\ last' = [step |-> "query", r |-> r,
                      output |-> IF r.oserror THEN << >> ELSE output]
          /\ IF q.exc # NoExc
               THEN /\ StageRaise("inspect", q.exc, "query")
                    /\ UNCHANGED task
               ELSE /\ pc' = "provision"
                    /\ task' = [task EXCEPT !.package_name = q.name,
                                            !.package_version = q.evr]
                    /\ stages' = WholeStage("inspect", "ok")
                    /\ UNCHANGED << exc, cause >>
  /\ UNCHANGED << queue, terminal, posts, plog, dirs, leaked, srpm_file, git_subdir, repo_head,
                  tmp_dest >>
  /\ UNCHANGED loopvars

\* before_git_import: git_package.sh, then git_branch.sh; call() returns the
\* exit code, which is dropped, or raises OSError when the script cannot be run
BeforeGitImport ==
  /\ pc = "provision"
  /\ last' = [step |-> "provision", reponame |-> reponame(task)]
  /\ \E package \in CallResults, branch \in CallResults :
       IF package = "oserror" \/ branch = "oserror"
         THEN StageRaise("provision", Raise("OSError", "call"), "provision")
         ELSE /\ pc' = "import"
              /\ stages' = WholeStage("provision",
                             IF package = "zero" /\ branch = "zero" THEN "ok" ELSE "nonzero")
              /\ UNCHANGED << exc, cause >>
  /\ UNCHANGED << queue, terminal, task, posts, plog, dirs, leaked, srpm_file, git_subdir, repo_head,
                  tmp_dest >>
  /\ UNCHANGED loopvars

\* git_import_srpm: tmp = tempfile.mkdtemp(), then do_git_srpm_import returns
\* the commit hash or raises
GitImportSrpm ==
  /\ pc = "import"
  /\ pc' = "import_finally"
  /\ dirs' = dirs \cup {"import_tmp"}
  /\ \E result \in {"ok", "PackageImportException", "Exception"} :
       /\ exc' = IF result = "ok" THEN NoExc ELSE Raise(result, "import")
       /\ cause' = IF result = "ok" THEN cause
                   ELSE IF result = "PackageImportException" THEN "import"
                   ELSE "import_unexpected"
       /\ stages' = WholeStage("import", IF result = "ok" THEN "running" ELSE "raised")
  /\ UNCHANGED << queue, terminal, task, posts, plog, leaked, srpm_file, git_subdir, repo_head,
                  tmp_dest, last >>
  /\ UNCHANGED loopvars

\* git_import_srpm with the hash assigned whether or not the import raised
GitImportFinallyHashAlways ==
  /\ pc = "import_finally"
  /\ dirs' = dirs \ {"import_tmp"}
  /\ task' = [task EXCEPT !.git_hash = "hash"]
  /\ IF exc = NoExc
       THEN /\ pc' = "refresh"
            /\ stages' = EndStage("ok")
       ELSE /\ pc' = "except"
            /\ UNCHANGED stages
  /\ UNCHANGED << queue, terminal, exc, cause, posts, plog, leaked, srpm_file, git_subdir, repo_head,
                  tmp_dest, last >>
  /\ UNCHANGED loopvars

\* git_import_srpm with the scratch directory removed only after an import
\* that returned
GitImportFinallyKeepsOnRaise ==
  /\ pc = "import_finally"
  /\ dirs' = IF exc = NoExc THEN dirs \ {"import_tmp"} ELSE dirs
  /\ IF exc = NoExc
       THEN /\ pc' = "refresh"
            /\ task' = [task EXCEPT !.git_hash = "hash"]
            /\ stages' = EndStage("ok")
       ELSE /\ pc' = "except"
            /\ UNCHANGED << task, stages >>
  /\ UNCHANGED << queue, terminal, exc, cause, posts, plog, leaked, srpm_file, git_subdir, repo_head,
                  tmp_dest, last >>
  /\ UNCHANGED loopvars

\* git_import_srpm: finally shutil.rmtree(tmp); then task.git_hash is assigned
\* or the exception goes on to do_import's handlers
GitImportFinally ==
  /\ pc = "import_finally"
  /\ dirs' = dirs \ {"import_tmp"}
  /\ IF exc = NoExc
       THEN /\ pc' = "refresh"
            /\ task' = [task EXCEPT !.git_hash = "hash"]
            /\ stages' = EndStage("ok")
       ELSE /\ pc' = "except"
            /\ UNCHANGED << task, stages >>
  /\ UNCHANGED << queue, terminal, exc, cause, posts, plog, leaked, srpm_file, git_subdir, repo_head,
                  tmp_dest, last >>
  /\ UNCHANGED loopvars

\* after_git_import: call() of cgit_pkg_list.sh
AfterGitImport ==
  /\ pc = "refresh"
  /\ \E listing \in CallResults :
       IF listing = "oserror"
         THEN StageRaise("refresh", Raise("OSError", "call"), "refresh")
         ELSE /\ pc' = "post"
              /\ stages' = WholeStage("refresh", IF listing = "zero" THEN "ok" ELSE "nonzero")
              /\ UNCHANGED << exc, cause >>
  /\ UNCHANGED << queue, terminal, task, posts, plog, dirs, leaked, srpm_file, git_subdir, repo_head,
                  tmp_dest, last >>
  /\ UNCHANGED loopvars

\* do_import: self.post_back(task.get_dict_for_frontend()); the post is
\* delivered, or requests.post raises
PostSuccess ==
  /\ pc = "post"
  /\ \E delivered \in BOOLEAN :
       /\ posts' = Append(posts, [data |-> get_dict_for_frontend(task), ok |-> delivered])
       /\ IF delivered
            THEN /\ pc' = "finally"
                 /\ queue' = FrontendImportCompleted(queue, task.task_id)
                 /\ terminal' = "NOTIFIED"
                 /\ stages' = WholeStage("post", "ok")
                 /\ UNCHANGED << exc, cause >>
            ELSE /\ StageRaise("post", Raise("ConnectionError", "post"), "post")
                 /\ UNCHANGED << queue, terminal >>
  /\ UNCHANGED << task, plog, dirs, leaked, srpm_file, git_subdir, repo_head, tmp_dest, last >>
  /\ UNCHANGED loopvars

\* do_import's except clauses: the failure payload for the exception goes to
\* post_back_safe, which swallows the error of a post that raises
HandleException ==
  /\ pc = "except"
  /\ pc' = "finally"
  /\ terminal' = "FAILED"
  /\ \E delivered \in BOOLEAN :
       LET e == Raise("ConnectionError", "post")
       IN /\ posts' = Append(posts, [data |-> FailureDict(task, ExceptKind(exc)),
                                     ok |-> delivered])
          /\ queue' = IF delivered THEN FrontendImportCompleted(queue, task.task_id)
                      ELSE queue
          /\ exc' = IF delivered \/ PostBackSafeCatches(e) THEN NoExc ELSE e
  /\ UNCHANGED << task, cause, stages, plog, dirs, leaked, srpm_file, git_subdir, repo_head,
                  tmp_dest, last >>
  /\ UNCHANGED loopvars

\* do_import: finally shutil.rmtree(tmp_root, ignore_errors=True); an
\* exception still in flight leaves do_import and ends run.  The task and
\* the provider object are dropped when do_import returns, and the record of
\* what was done for the task goes with them.
DoImportFinally ==
  /\ pc = "finally"
  /\ pc' = IF exc = NoExc THEN "loop" ELSE "crashed"
  /\ dirs' = dirs \ {"tmp_root"}
  /\ srpm_file' = FALSE
  /\ task' = NoTask
  /\ cause' = "none"
  /\ posts' = << >>
  /\ stages' = << >>
  /\ plog' = << >>
  /\ git_subdir' = << >>
  /\ repo_head' = "none"
  /\ tmp_dest' = {}
  /\ last' = NoCall
  /\ UNCHANGED << queue, terminal, exc, leaked >>
  /\ UNCHANGED loopvars

(* ------------------- CustomProvider.produce_srpm ---------------------- *)

\* CustomProvider.__init__: the fields taken from source_json, and the
\* script written to workdir/script
CustomInit ==
  /\ cp_pc = "start"
  /\ cp_conf \in [hook_data : BOOLEAN, builddeps : BOOLEAN, resultdir : BOOLEAN]
  /\ cp_cmd = {}
  /\ cp_files = {"script"}
  /\ cp_sandbox = "absent"
  /\ cp_srcdir = FALSE
  /\ cp_log = << >>
  /\ cp_exc = NoExc
  /\ cp_last = NoCall

\* how a subprocess run by helpers.run_cmd ends
RunResults == {"zero", "nonzero", "oserror"}

\* a run_cmd that raises only when the command cannot be launched
run_cmd_ignores_exit(r) == r = "oserror"

\* helpers.run_cmd: raises unless the command ran and exited with 0
run_cmd_raises(r) == r # "zero"

\* requests' Response.raise_for_status(): raises for a 4xx or 5xx status
raise_for_status_raises(status) == 400 <= status /\ status < 600

HookStatuses == {200, 204, 304, 404, 500}

\* produce_srpm ends with exception e
CpRaise(e) ==
  /\ cp_pc' = "raised"
  /\ cp_exc' = e

\* produce_srpm: mock-config.cfg is written and the command line is begun;
\* the file cannot be opened (open_error), or a write to it fails
CpWriteConfig ==
  /\ cp_pc = "start"
  /\ \E write \in {"ok", "open_error", "write_error"} :
       /\ cp_files' = IF write = "open_error" THEN cp_files
                       ELSE cp_files \cup {"mock-config.cfg"}
       /\ IF write = "ok"
            THEN /\ cp_pc' = IF cp_conf.hook_data THEN "hook" ELSE "prepare"
                 /\ cp_cmd' = {"--workdir", "--mock-config", "--script"}
                                \cup (IF cp_conf.builddeps THEN {"--builddeps"} ELSE {})
                 /\ UNCHANGED cp_exc
            ELSE /\ CpRaise(Raise("IOError", "mock-config.cfg"))
                 /\ UNCHANGED cp_cmd
  /\ UNCHANGED << cp_conf, cp_sandbox, cp_srcdir, cp_log >>
  /\ UNCHANGED cp_last
  /\ UNCHANGED << ivars, fevars >>

\* How the body of the streamed answer gets into hook_payload: completely, or
\* the file cannot be opened (open_error), or with the file open a write
\* fails (write_error), the transfer breaks (broken) or times out
\* (timed_out), or the body cannot be decoded (undecodable).
HookBodies == {"complete", "open_error", "write_error", "broken", "timed_out", "undecodable"}

\* the exception of a body that did not get into hook_payload completely
HookBodyError(body) ==
  CASE body = "open_error" -> Raise("IOError", "open")
    [] body = "write_error" -> Raise("IOError", "write")
    [] body = "broken" -> Raise("ChunkedEncodingError", "body")
    [] body = "timed_out" -> Raise("ConnectionError", "body")
    [] body = "undecodable" -> Raise("ContentDecodingError", "body")

\* produce_srpm: if self.hook_payload_url, the payload is fetched and written.
\* The answer is streamed: after the status test the file is opened and the
\* body is then read and written chunk by chunk, so a failure after the
\* file was opened leaves the part of the payload that was written.
CpHookPayload ==
  /\ cp_pc = "hook"
  /\ cp_log' = Append(cp_log, "get_hook_payload")
  /\ \E get \in {"ok", "raise"}, status \in HookStatuses,
        body \in HookBodies :
       IF get = "raise"
         THEN /\ CpRaise(Raise("ConnectionError", "get"))
              /\ cp_last' = [step |-> "get_hook_payload", get |-> get]
              /\ UNCHANGED << cp_files, cp_cmd >>
         ELSE IF raise_for_status_raises(status)
           THEN /\ CpRaise(Raise("HTTPError", "status"))
                /\ cp_last' = [step |-> "get_hook_payload", get |-> get, status |-> status,
                               body |-> "not_read"]
                /\ UNCHANGED << cp_files, cp_cmd >>
           ELSE /\ cp_last' = [step |-> "get_hook_payload", get |-> get, status |-> status,
                               body |-> body]
                /\ cp_files' = IF body = "open_error" THEN cp_files
                                ELSE cp_files \cup {"hook_payload"}
                /\ IF body = "complete"
                     THEN /\ cp_pc' = "prepare"
                          /\ cp_cmd' = cp_cmd \cup {"--hook-payload-file"}
                          /\ UNCHANGED cp_exc
                     ELSE /\ CpRaise(HookBodyError(body))
                          /\ UNCHANGED cp_cmd
  /\ UNCHANGED << cp_conf, cp_sandbox, cp_srcdir >>
  /\ UNCHANGED << ivars, fevars >>

\* produce_srpm: helpers.run_cmd(cmd), the source preparation in the build
\* root; a run that fails may or may not have set the build root up
CpPrepare ==
  /\ cp_pc = "prepare"
  /\ cp_log' = Append(cp_log, "prepare")
  /\ cp_cmd' = cp_cmd \cup (IF cp_conf.resultdir THEN {"--resultdir"} ELSE {})
  /\ \E r \in RunResults, root \in {"absent", "present"} :
       /\ cp_last' = [step |-> "prepare", r |-> r]
       /\ IF run_cmd_raises(r)
            THEN /\ CpRaise(Raise("RuntimeError", "prepare"))
                 /\ cp_sandbox' = IF r = "oserror" THEN "absent" ELSE root
            ELSE /\ cp_pc' = "copyout"
                 /\ cp_sandbox' = "present"
                 /\ UNCHANGED cp_exc
  /\ UNCHANGED << cp_conf, cp_files, cp_srcdir >>
  /\ UNCHANGED << ivars, fevars >>

\* produce_srpm: mock --copyout inner_resultdir srpm_srcdir; a run that
\* fails may or may not have made the staging directory
CpCopyout ==
  /\ cp_pc = "copyout"
  /\ cp_log' = Append(cp_log, "copyout")
  /\ \E r \in RunResults, partial \in BOOLEAN :
       /\ cp_last' = [step |-> "copyout", r |-> r]
       /\ IF run_cmd_raises(r)
            THEN /\ CpRaise(Raise("RuntimeError", "copyout"))
                 /\ cp_srcdir' = (r # "oserror" /\ partial)
            ELSE /\ cp_pc' = "scrub"
                 /\ cp_srcdir' = TRUE
                 /\ UNCHANGED cp_exc
  /\ UNCHANGED << cp_conf, cp_cmd, cp_files, cp_sandbox >>
  /\ UNCHANGED << ivars, fevars >>

\* produce_srpm: mock --scrub all
CpScrub ==
  /\ cp_pc = "scrub"
  /\ cp_log' = Append(cp_log, "scrub")
  /\ \E r \in RunResults :
       /\ cp_last' = [step |-> "scrub", r |-> r]
       /\ IF run_cmd_raises(r)
            THEN /\ CpRaise(Raise("RuntimeError", "scrub"))
                 /\ UNCHANGED cp_sandbox
            ELSE /\ cp_pc' = "build_srpm"
                 /\ cp_sandbox' = "scrubbed"
                 /\ UNCHANGED cp_exc
  /\ UNCHANGED << cp_conf, cp_cmd, cp_files, cp_srcdir >>
  /\ UNCHANGED << ivars, fevars >>

\* produce_srpm: helpers.build_srpm(srpm_srcdir, self.outdir)
CpBuildSrpm ==
  /\ cp_pc = "build_srpm"
  /\ cp_log' = Append(cp_log, "build_srpm")
  /\ \E r \in RunResults :
       /\ cp_last' = [step |-> "build_srpm", r |-> r]
       /\ IF run_cmd_raises(r)
            THEN /\ CpRaise(Raise("RuntimeError", "build_srpm"))
                 /\ UNCHANGED cp_files
            ELSE /\ cp_pc' = "rmtree"
                 /\ cp_files' = cp_files \cup {"package.src.rpm"}
                 /\ UNCHANGED cp_exc
  /\ UNCHANGED << cp_conf, cp_cmd, cp_sandbox, cp_srcdir >>
  /\ UNCHANGED << ivars, fevars >>

\* produce_srpm: shutil.rmtree(srpm_srcdir), and the return
CpRmtree ==
  /\ cp_pc = "rmtree"
  /\ cp_pc' = "returned"
  /\ cp_log' = Append(cp_log, "rmtree")
  /\ cp_srcdir' = FALSE
  /\ UNCHANGED << cp_conf, cp_cmd, cp_files, cp_sandbox, cp_exc >>
  /\ cp_last' = [step |-> "rmtree"]
  /\ UNCHANGED << ivars, fevars >>

(* ------------------- the frontend's views of builds ------------------- *)

\* the exceptions process_new_build handles
HandledExceptions ==
  {"ActionInProgressException", "InsufficientRightsException", "UnrepeatableBuildException"}

\* How a call of a BuildsLogic.create_new_from_* method ends: the build is
\* added to the database session, or one of the exceptions of
\* coprs.exceptions that process_new_build names is raised, or another
\* error, as the IOError of form.pkgs.data.save(path), the f_uploader that
\* process_new_build_upload hands to create_new_from_upload.
CreateResults == {"ok"} \cup HandledExceptions \cup {"IOError"}

\* the exceptions process_cancel_build handles
CancelHandled == {"InsufficientRightsException"}

\* How BuildsLogic.cancel_build ends: the build is marked as canceled in the
\* session, or the user's rights do not suffice, or another error is raised.
CancelResults == {"ok"} \cup CancelHandled \cup {"IOError"}

\* the exceptions copr_delete_build handles
DeleteHandled == {"InsufficientRightsException", "ActionInProgressException"}

\* How BuildsLogic.delete_build ends: the build is deleted in the session,
\* or it is refused, or another error is raised.
DeleteResults == {"ok"} \cup DeleteHandled \cup {"IOError"}

\* How db.session.commit() ends: the session's changes are in the database,
\* or the database refuses them and the call raises.
CommitResults == {"ok", "raise"}

\* The callers of process_new_build: process_new_build_url, whose factory
\* makes one build for every line of form.pkgs and flashes its own messages;
\* process_rebuild, whose factory looks the source build up and makes one
\* build from it; and the others, whose factory makes one build.
Factories == {"url", "single", "rebuild"}

\* the forms a request can bring: factory, validity, lines of form.pkgs,
\* form.enable_net.data
Forms ==
  { [factory |-> f, valid |-> v, pkgs |-> n, enable_net |-> e] :
      f \in Factories, v \in BOOLEAN, n \in 1 .. MaxPkgs, e \in BOOLEAN }

\* build_options = {"enable_net": form.enable_net.data, ...}
build_options(form) == [enable_net |-> form.enable_net]

\* the builds in the database when the frontend starts to serve
StoredBuilds == { [id |-> k, enable_net |-> FALSE, canceled |-> FALSE] : k \in {1, 2} }

\* the id the database gives to the build of the k-th package of the n-th request
BuildId(n, k) == Cardinality(StoredBuilds) + (n - 1) * MaxPkgs + k

\* the build that a create call adds to the session under the given id
NewBuild(id, options) == [id |-> id, enable_net |-> options.enable_net, canceled |-> FALSE]

\* the views of the module that flash a message or change the database
Views == {"new_build", "cancel_build", "delete_build", "repeat_build", "builds"}

\* flask.flash(message, category); the category defaults to "message"
Flash(category, msg, arg) == [category |-> category, msg |-> msg, arg |-> arg]

\* the frontend serves, with builds in its database and no request yet
FrontendInit ==
  /\ fe_pc = "idle"
  /\ fe_request = NoRequest
  /\ fe_form = NoForm
  /\ fe_i = 0
  /\ fe_session = {}
  /\ fe_db = StoredBuilds
  /\ fe_flashes = << >>
  /\ fe_calls = << >>
  /\ fe_exc = NoExc
  /\ fe_response = "none"

\* A request comes in for one of the views, after the one before has ended:
\* copr_new_build and the other callers of process_new_build with a
\* submitted form (copr_new_build_rebuild with the id of the source build as
\* well), copr_cancel_build, copr_delete_build and copr_repeat_build with a
\* build id, copr_builds.  The request has a
\* database session of its own; the flashed messages stay in the user's
\* session from one request to the next.
FeRequest ==
  /\ fe_pc \in {"idle", "returned", "raised"}
  /\ fe_request.n < MaxRequests
  /\ \E view \in Views :
       LET req(id) == [view |-> view, build_id |-> id, n |-> fe_request.n + 1,
                       base |-> Len(fe_flashes)]
       IN CASE view = "new_build" ->
                 /\ fe_form' \in {f \in Forms : f.factory = "url" \/ f.pkgs = 1}
                 /\ \E id \in {b.id : b \in fe_db} \cup {0} :
                      fe_request' = req(IF fe_form'.factory = "rebuild" THEN id ELSE 0)
                 /\ fe_i' = 1
                 /\ fe_pc' = "start"
            [] view = "builds" ->
                 /\ fe_request' = req(0)
                 /\ fe_form' = NoForm
                 /\ fe_i' = 0
                 /\ fe_pc' = "render_builds"
            [] OTHER ->
                 /\ \E id \in {b.id : b \in fe_db} \cup {0} : fe_request' = req(id)
                 /\ fe_form' = NoForm
                 /\ fe_i' = 0
                 /\ fe_pc' = "get_build"
  /\ fe_session' = {}
  /\ fe_calls' = << >>
  /\ fe_exc' = NoExc
  /\ fe_response' = "none"
  /\ UNCHANGED << fe_db, fe_flashes >>
  /\ UNCHANGED << ivars, cpvars >>

\* ComplexLogic.get_build_safe(build_id): the build of that id, or an
\* exception when the database holds none
FeGetBuild ==
  /\ fe_pc = "get_build"
  /\ IF \E b \in fe_db : b.id = fe_request.build_id
       THEN /\ fe_pc' = fe_request.view
            /\ UNCHANGED fe_exc
       ELSE /\ fe_pc' = "raised"
            /\ fe_exc' = Raise("ObjectNotFound", "get_build_safe")
  /\ UNCHANGED << fe_request, fe_form, fe_i, fe_session, fe_db, fe_flashes, fe_calls,
                  fe_response >>
  /\ UNCHANGED << ivars, cpvars >>

\* process_cancel_build: BuildsLogic.cancel_build, then the commit and the
\* message, or the message of InsufficientRightsException
FeCancelBuild ==
  /\ fe_pc = "cancel_build"
  /\ \E res \in CancelResults, commit \in CommitResults :
       IF res = "ok" /\ commit = "ok"
         THEN /\ fe_db' = { IF b.id = fe_request.build_id
                              THEN [b EXCEPT !.canceled = TRUE] ELSE b : b \in fe_db }
              /\ fe_calls' = Append(fe_calls, "commit")
              /\ fe_flashes' = Append(fe_flashes,
                                      Flash("message", "canceled", fe_request.build_id))
              /\ fe_pc' = "redirect"
              /\ UNCHANGED fe_exc
         ELSE IF res = "ok"
           THEN /\ fe_exc' = Raise("SQLAlchemyError", "commit")
                /\ fe_calls' = Append(fe_calls, "commit_failed")
                /\ fe_pc' = "raised"
                /\ UNCHANGED << fe_db, fe_flashes >>
           ELSE /\ fe_exc' = Raise(res, "cancel_build")
                /\ fe_flashes' = IF res \in CancelHandled
                                   THEN Append(fe_flashes, Flash("error", res, 0))
                                   ELSE fe_flashes
                /\ fe_pc' = IF res \in CancelHandled THEN "redirect" ELSE "raised"
                /\ UNCHANGED << fe_db, fe_calls >>
  /\ UNCHANGED << fe_request, fe_form, fe_i, fe_session, fe_response >>
  /\ UNCHANGED << ivars, cpvars >>

\* copr_delete_build: BuildsLogic.delete_build, then the commit and the
\* message, or the message of the exception that refused it
FeDeleteBuild ==
  /\ fe_pc = "delete_build"
  /\ \E res \in DeleteResults, commit \in CommitResults :
       IF res = "ok" /\ commit = "ok"
         THEN /\ fe_db' = { b \in fe_db : b.id # fe_request.build_id }
              /\ fe_calls' = Append(fe_calls, "commit")
              /\ fe_flashes' = Append(fe_flashes, Flash("message", "deleted", 0))
              /\ fe_pc' = "redirect"
              /\ UNCHANGED fe_exc
         ELSE IF res = "ok"
           THEN /\ fe_exc' = Raise("SQLAlchemyError", "commit")
                /\ fe_calls' = Append(fe_calls, "commit_failed")
                /\ fe_pc' = "raised"
                /\ UNCHANGED << fe_db, fe_flashes >>
           ELSE /\ fe_exc' = Raise(res, "delete_build")
                /\ fe_flashes' = IF res \in DeleteHandled
                                   THEN Append(fe_flashes, Flash("error", res, 0))
                                   ELSE fe_flashes
                /\ fe_pc' = IF res \in DeleteHandled THEN "redirect" ELSE "raised"
                /\ UNCHANGED << fe_db, fe_calls >>
  /\ UNCHANGED << fe_request, fe_form, fe_i, fe_session, fe_response >>
  /\ UNCHANGED << ivars, cpvars >>

\* process_copr_repeat_build: a message when the user cannot build in the
\* project of the build, and the rebuild form rendered in either case
FeRepeatBuild ==
  /\ fe_pc = "repeat_build"
  /\ \E can_build_in \in BOOLEAN :
       fe_flashes' = IF can_build_in THEN fe_flashes
                     ELSE Append(fe_flashes, Flash("message", "not_allowed_to_repeat", 0))
  /\ fe_pc' = "returned"
  /\ fe_response' = "form"
  /\ UNCHANGED << fe_request, fe_form, fe_i, fe_session, fe_db, fe_calls, fe_exc >>
  /\ UNCHANGED << ivars, cpvars >>

\* render_copr_builds: the flashed messages are taken out of the session and
\* shown on the page of the project's builds
FeRenderBuilds ==
  /\ fe_pc = "render_builds"
  /\ fe_flashes' = << >>
  /\ fe_pc' = "returned"
  /\ fe_response' = "builds"
  /\ UNCHANGED << fe_request, fe_form, fe_i, fe_session, fe_db, fe_calls, fe_exc >>
  /\ UNCHANGED << ivars, cpvars >>

\* msg_on_success: False from process_new_build_url, the default otherwise
msg_on_success(form) == form.factory # "url"

\* process_new_build: if form.validate_on_submit(); the else branch returns
\* add_function(copr, form, add_view), the form rendered again
FeValidate ==
  /\ fe_pc = "start"
  /\ IF fe_form.valid
       THEN /\ fe_pc' = "factory"
            /\ UNCHANGED fe_response
       ELSE /\ fe_pc' = "returned"
            /\ fe_response' = "form"
  /\ UNCHANGED << fe_request, fe_form, fe_i, fe_session, fe_db, fe_flashes, fe_calls, fe_exc >>
  /\ UNCHANGED << ivars, cpvars >>

\* The factory's step for the fe_i-th package, with the result of the create
\* call given to the handlers of process_new_build.  The factory of
\* process_rebuild looks the source build up first, with
\* ComplexLogic.get_build_safe, which raises when the database holds none of
\* that id.
FeCreateWith(res) ==
  /\ fe_pc = "factory"
  /\ fe_i <= fe_form.pkgs
  /\ IF fe_form.factory = "rebuild" /\ ~\E b \in fe_db : b.id = fe_request.build_id
       THEN /\ fe_exc' = Raise("ObjectNotFound", "get_build_safe")
            /\ fe_pc' = "raised"
            /\ UNCHANGED << fe_session, fe_i >>
       ELSE IF res = "ok"
         THEN /\ fe_session' = fe_session \cup
                                 {NewBuild(BuildId(fe_request.n, fe_i), build_options(fe_form))}
              /\ fe_i' = fe_i + 1
              /\ fe_pc' = IF fe_i < fe_form.pkgs THEN "factory"
                          ELSE IF fe_form.factory = "url" THEN "flash_pkgs"
                          ELSE "commit"
              /\ UNCHANGED fe_exc
         ELSE /\ fe_exc' = Raise(res, "create")
              /\ fe_pc' = IF res \in HandledExceptions THEN "except" ELSE "raised"
              /\ UNCHANGED << fe_session, fe_i >>
  /\ UNCHANGED << fe_request, fe_form, fe_db, fe_flashes, fe_calls, fe_response >>
  /\ UNCHANGED << ivars, cpvars >>

\* create_new_build_factory(**build_options): one create call of the factory
FeCreate == \E res \in CreateResults : FeCreateWith(res)

\* process_new_build_url's factory: the success message of every package,
\* after all the builds were created
FeFlashPkgs ==
  /\ fe_pc = "flash_pkgs"
  /\ fe_pc' = "commit"
  /\ fe_flashes' = fe_flashes \o [k \in 1 .. fe_form.pkgs |-> Flash("success", "created_pkg", k)]
  /\ UNCHANGED << fe_request, fe_form, fe_i, fe_session, fe_db, fe_calls, fe_exc, fe_response >>
  /\ UNCHANGED << ivars, cpvars >>

\* db.session.commit(), then the else clause of the try statement; an
\* exception of the commit is none of the three the except clause names and
\* leaves process_new_build
FeCommit ==
  /\ fe_pc = "commit"
  /\ \E commit \in CommitResults :
       IF commit = "ok"
         THEN /\ fe_pc' = "redirect"
              /\ fe_db' = fe_db \cup fe_session
              /\ fe_session' = {}
              /\ fe_calls' = Append(fe_calls, "commit")
              /\ fe_flashes' = IF msg_on_success(fe_form)
                                 THEN Append(fe_flashes, Flash("success", "created", 0))
                                 ELSE fe_flashes
              /\ UNCHANGED fe_exc
         ELSE /\ fe_pc' = "raised"
              /\ fe_exc' = Raise("SQLAlchemyError", "commit")
              /\ fe_calls' = Append(fe_calls, "commit_failed")
              /\ UNCHANGED << fe_db, fe_session, fe_flashes >>
  /\ UNCHANGED << fe_request, fe_form, fe_i, fe_response >>
  /\ UNCHANGED << ivars, cpvars >>

\* the except clause with the session committed instead of rolled back
FeExceptCommits ==
  /\ fe_pc = "except"
  /\ fe_pc' = "redirect"
  /\ fe_db' = fe_db \cup fe_session
  /\ fe_session' = {}
  /\ fe_calls' = Append(fe_calls, "rollback")
  /\ fe_flashes' = Append(fe_flashes, Flash("error", fe_exc.type, 0))
  /\ UNCHANGED << fe_request, fe_form, fe_i, fe_exc, fe_response >>
  /\ UNCHANGED << ivars, cpvars >>

\* except (ActionInProgressException, InsufficientRightsException,
\* UnrepeatableBuildException): db.session.rollback(); flask.flash(str(e), "error")
FeExcept ==
  /\ fe_pc = "except"
  /\ fe_pc' = "redirect"
  /\ fe_session' = {}
  /\ fe_calls' = Append(fe_calls, "rollback")
  /\ fe_flashes' = Append(fe_flashes, Flash("error", fe_exc.type, 0))
  /\ UNCHANGED << fe_request, fe_form, fe_i, fe_db, fe_exc, fe_response >>
  /\ UNCHANGED << ivars, cpvars >>

\* return flask.redirect(...), of process_new_build, process_cancel_build
\* and copr_delete_build
FeRedirect ==
  /\ fe_pc = "redirect"
  /\ fe_pc' = "returned"
  /\ fe_response' = "redirect"
  /\ UNCHANGED << fe_request, fe_form, fe_i, fe_session, fe_db, fe_flashes, fe_calls, fe_exc >>
  /\ UNCHANGED << ivars, cpvars >>

(* --------------------------- specification ---------------------------- *)

Next ==
  \/ Submit
  \/ Stop
  \/ Run
  \/ LoopCheck
  \/ TryToObtainNewTask
  \/ Sleep
  \/ DoImportBegin
  \/ SourceProviderGetSrpm
  \/ SrpmUrlGetSrpm
  \/ GitClone
  \/ GitDirName
  \/ GitCheckout
  \/ GitAndTitoBuild
  \/ GitAndMockBuild
  \/ GitCopy
  \/ GitClean
  \/ PkgNameEvr
  \/ BeforeGitImport
  \/ GitImportSrpm
  \/ GitImportFinally
  \/ AfterGitImport
  \/ PostSuccess
  \/ HandleException
  \/ DoImportFinally

Spec == Init /\ [][Next]_vars

(* ------------------- do_import on a task of any type ------------------ *)

\* values a task's source_type can be given
SourceTypeValues == (SRPM_LINK - 1) .. UNKNOWN_TYPE

\* an ImportTask built field by field, as ImportTask() allows, with any
\* source_type
AnyTask(st, b) ==
  [NoTask EXCEPT !.task_id = 1, !.user = "user", !.project = "project",
                 !.source_type = st, !.git_branch = b]

\* do_import(task) is called on such a task by an importer that is not in
\* its loop
InitDoImport ==
  /\ pc = "do_import"
  /\ is_running = FALSE
  /\ stopped_at = "never"
  /\ queue = << >>
  /\ head = NoJob
  /\ submitted = 0
  /\ polls = 0
  /\ lastjob = NoJob
  /\ terminal = "none"
  /\ task \in {AnyTask(st, b) : st \in SourceTypeValues, b \in Branches}
  /\ exc = NoExc
  /\ cause = "none"
  /\ posts = << >>
  /\ stages = << >>
  /\ plog = << >>
  /\ dirs = {}
  /\ leaked = FALSE
  /\ srpm_file = FALSE
  /\ git_subdir = << >>
  /\ repo_head = "none"
  /\ tmp_dest = {}
  /\ last = NoCall
  /\ CustomAbsent
  /\ FrontendAbsent

\* the steps of do_import
NextDoImport ==
  \/ DoImportBegin
  \/ SourceProviderGetSrpm
  \/ SrpmUrlGetSrpm
  \/ GitClone
  \/ GitDirName
  \/ GitCheckout
  \/ GitAndTitoBuild
  \/ GitAndMockBuild
  \/ GitCopy
  \/ GitClean
  \/ PkgNameEvr
  \/ BeforeGitImport
  \/ GitImportSrpm
  \/ GitImportFinally
  \/ AfterGitImport
  \/ PostSuccess
  \/ HandleException
  \/ DoImportFinally

SpecDoImport == InitDoImport /\ [][NextDoImport]_vars

\* one run of CustomProvider.produce_srpm
NextCustom ==
  \/ CpWriteConfig
  \/ CpHookPayload
  \/ CpPrepare
  \/ CpCopyout
  \/ CpScrub
  \/ CpBuildSrpm
  \/ CpRmtree

InitCustom == ImporterInit /\ CustomInit /\ FrontendAbsent

SpecCustom == InitCustom /\ [][NextCustom]_vars

\* the frontend handling requests to the views of coprs_builds, one at a time
NextFrontend ==
  \/ FeRequest
  \/ FeGetBuild
  \/ FeCancelBuild
  \/ FeDeleteBuild
  \/ FeRepeatBuild
  \/ FeRenderBuilds
  \/ FeValidate
  \/ FeCreate
  \/ FeFlashPkgs
  \/ FeCommit
  \/ FeExcept
  \/ FeRedirect

InitFrontend == ImporterInit /\ CustomAbsent /\ FrontendInit

SpecFrontend == InitFrontend /\ [][NextFrontend]_vars

(* ------------------------------ claims -------------------------------- *)

Range(f) == {f[i] : i \in DOMAIN f}

FailurePosts == {i \in DOMAIN posts : IsFailure(posts[i].data)}

SuccessPosts == {i \in DOMAIN posts : IsSuccess(posts[i].data)}

\* C1: when do_import is about to return, exactly one payload has been
\* handed to the completion endpoint for the task: one success record or one
\* failure record, never both and never neither.
C1_ExactlyOnePayload ==
  pc = "finally" => Len(posts) = 1

\* C2: no error leaves do_import into run: the loop is never ended by an
\* exception, and it has ended only if is_running is false.
C2_LoopSurvivesTaskFailure ==
  /\ pc # "crashed"
  /\ pc = "exited" => ~is_running
  /\ pc \in {"loop", "poll", "sleep", "exited"} => exc = NoExc

\* C2 witness: a task failed, its failure payload could not be delivered (the
\* job is still first on the list), and the loop is at its next poll.
C2_Witness ==
  /\ pc = "poll"
  /\ terminal = "FAILED"
  /\ queue # << >>
  /\ queue[1] = lastjob.task_id

\* C3: a poll is issued only if the job taken by the previous poll, if any,
\* has reached NOTIFIED or FAILED.
C3_NoPollBeforeTerminal ==
  [][polls' = polls + 1 => (lastjob = NoJob \/ terminal # "none")]_vars

\* C4: a job whose decoding failed is reported to the queue owner with a
\* failure payload before the loop goes to sleep.
C4_MalformedJobReported ==
  (pc = "sleep" /\ lastjob # NoJob) =>
    \E i \in FailurePosts : posts[i].data.task_id = lastjob.task_id

\* C5: once get_srpm of a git provider has returned or raised, neither the
\* scratch directory nor the build-output directory of the provider exists.
C5_GitDirsRemoved ==
  pc \notin {"clone", "dirname", "checkout", "build", "copy", "clean"} =>
    dirs \cap {"git_tmp", "git_tmp_dest"} = {}

\* C6: when produce_srpm has returned or raised after the source preparation
\* was invoked, the build root is not left standing and the staging
\* directory does not exist.
C6_BuildRootTornDown ==
  (cp_pc \in {"returned", "raised"} /\ "prepare" \in Range(cp_log)) =>
    (cp_sandbox # "present" /\ ~cp_srcdir)

StageOrder == << "source", "inspect", "provision", "import", "refresh", "post" >>

\* the stages run so far are the first stages of the order, in the order
StagesInOrder ==
  /\ Len(stages) <= Len(StageOrder)
  /\ \A i \in DOMAIN stages : stages[i].name = StageOrder[i]

\* a stage that raised is the last one run, and the task is on its way to
\* the failure sink or in it
RaisedStageIsLast ==
  \A i \in DOMAIN stages :
    stages[i].result = "raised" =>
      /\ i = Len(stages)
      /\ pc \in {"import_finally", "except", "finally"}
      /\ pc = "finally" => Len(posts) \in FailurePosts

\* C7 as stated: the stages run in order, a stage runs only if every
\* earlier stage completed without failure (with exit code 0 and without
\* raising), and a failing stage sends the task to the failure sink with no
\* later stage run.
C7_StagesOnlyAfterSuccess ==
  /\ StagesInOrder
  /\ \A i \in DOMAIN stages : i < Len(stages) => stages[i].result = "ok"
  /\ RaisedStageIsLast

\* C7 amended: the stages run in order, a stage runs only if no earlier
\* stage raised, and a stage that raises sends the task to the failure sink
\* with no later stage run; a non-zero exit code of a provisioning or
\* housekeeping script is not looked at and does not stop the pipeline.
C7_StagesOnlyAfterNoRaise ==
  /\ StagesInOrder
  /\ \A i \in DOMAIN stages :
       /\ i < Len(stages) => stages[i].result \in {"ok", "nonzero"}
       /\ stages[i].result = "nonzero" => stages[i].name \in {"provision", "refresh"}
  /\ RaisedStageIsLast

\* C7 witness: provisioning ended with a non-zero exit code and all six
\* stages were run, the last one with success.
C7_Witness ==
  /\ Len(stages) = 6
  /\ stages[3].result = "nonzero"
  /\ stages[6].result = "ok"

\* The kind the taxonomy gives to a failure, by the stage the failing step
\* belongs to: the download, the package query, the import into dist-git,
\* and the git provider's clone, directory discovery, checkout and build
\* (GitAndMockProvider.build lists the directory and launches mock; copy,
\* with its copyfile, takes the built package out and fails as the build
\* does); a failure of any other step has the kind unknown_error.
KindOfCause(c) ==
  CASE c = "download" -> "srpm_download_failed"
    [] c = "query" -> "srpm_query_failed"
    [] c \in {"import", "import_unexpected"} -> "git_import_failed"
    [] c = "clone" -> "git_clone_failed"
    [] c = "dirname" -> "tito_wrong_directory_in_git"
    [] c = "checkout" -> "tito_git_checkout_error"
    [] c \in {"build", "listdir", "mock_launch", "copy", "copyfile"} ->
         "tito_srpm_build_error"
    [] OTHER -> "unknown_error"

\* C8: the error kind of every failure payload is the kind of the stage that
\* failed (unknown_error for a failure outside the stages that have a kind),
\* and is one of the eight kinds of the taxonomy.
C8_KindFollowsFailingStage ==
  \A i \in FailurePosts :
    /\ posts[i].data.error \in ErrorKinds
    /\ posts[i].data.error = KindOfCause(cause)

\* C9: when the success post itself fails, no failure payload is posted for
\* the task.
C9_NoFailurePayloadAfterFailedSuccessPost ==
  cause = "post" => FailurePosts = {}

\* C10: a failed listing refresh, by a non-zero exit code or by a failure to
\* launch the script, leaves the outcome as it is: the success payload is
\* posted and no failure payload is.
C10_RefreshFailureNotFatal ==
  ( /\ pc = "finally"
    /\ cause # "post"
    /\ \E i \in DOMAIN stages :
         stages[i].name = "refresh" /\ stages[i].result \in {"nonzero", "raised"} )
  => (SuccessPosts # {} /\ FailurePosts = {})

\* stage n of the task has ended with success
StageOk(n) == \E i \in DOMAIN stages : stages[i].name = n /\ stages[i].result = "ok"

\* C11, as claimed: a task that has ended in the failure sink has none of its
\* result fields set, and git_hash is set only after the import routine has
\* returned.
C11_FieldsNoneInFailureSink ==
  /\ terminal = "FAILED" =>
       /\ task.package_name = "None"
       /\ task.package_version = "None"
       /\ task.git_hash = "None"
  /\ task.git_hash # "None" => StageOk("import")

\* C11: package_name and package_version are set exactly once the package
\* inspection has returned, git_hash exactly once the import routine has
\* returned, and a stage that fails sets none of them; a later failure
\* leaves in place what the earlier stages have set.
C11_FieldsSetByTheirStage ==
  /\ task.package_name # "None" <=> StageOk("inspect")
  /\ task.package_version # "None" <=> StageOk("inspect")
  /\ task.git_hash # "None" <=> StageOk("import")
  /\ cause \in {"select", "download", "clone", "dirname", "checkout", "build", "listdir",
                "copy", "copyfile", "query"} =>
       /\ task.package_name = "None"
       /\ task.package_version = "None"
       /\ task.git_hash = "None"
  /\ cause \in {"provision", "import", "import_unexpected"} => task.git_hash = "None"

\* C11 witness: the import routine failed for a task whose package had been
\* identified; the task is in the failure sink with its name and version set.
C11_Witness ==
  /\ pc = "finally"
  /\ terminal = "FAILED"
  /\ cause = "import"
  /\ task.package_name = "pkg"
  /\ task.package_version = "0:1.2-3"
  /\ task.git_hash = "None"


\* tasks with every combination of missing and present name parts
NameParts ==
  [user : {"None", "user"}, project : {"None", "project"}, package_name : {"None", "pkg"}]

\* C12: reponame is None when the user, the project or the package name is
\* None and is user/project/package_name otherwise; the repository
\* provisioning and the success payload get the name only after the package
\* inspection has succeeded, so what they get is the complete name.
C12_RepoNameComplete ==
  /\ \A t \in NameParts :
       reponame(t) = IF t = [user |-> "user", project |-> "project", package_name |-> "pkg"]
                       THEN "user/project/pkg"
                       ELSE "None"
  /\ last.step = "provision" =>
       /\ StageOk("inspect")
       /\ task.package_name # "None"
       /\ last.reponame = "user/project/" \o task.package_name
  /\ \A i \in SuccessPosts :
       /\ StageOk("inspect")
       /\ task.package_name # "None"
       /\ posts[i].data.repo_name = "user/project/" \o task.package_name

\* C12 witness: a task was provisioned and its success payload delivered,
\* both with the complete repository name.
C12_Witness ==
  /\ pc = "finally"
  /\ last.step = "provision"
  /\ last.reponame = "user/project/pkg"
  /\ SuccessPosts = {1}
  /\ posts[1].ok
  /\ posts[1].data.repo_name = "user/project/pkg"


\* the steps of the download provider and of the git providers
DownloadSteps == {"download"}

GitSteps ==
  {"clone", "dirname", "checkout", "checkout_skipped", "build", "build_not_run", "copy",
   "clean"}

\* C13: SRPM_LINK and SRPM_UPLOAD select SrpmUrlProvider, GIT_AND_TITO selects
\* GitAndTitoProvider, GIT_AND_MOCK selects GitAndMockProvider, and every
\* other source type raises at the selection: no provider step is run, no
\* provider directory is made and no file is fetched for it.
C13_SelectionIsTotalMapping ==
  /\ SelectProvider(SRPM_LINK) = "SrpmUrlProvider"
  /\ SelectProvider(SRPM_UPLOAD) = "SrpmUrlProvider"
  /\ SelectProvider(GIT_AND_TITO) = "GitAndTitoProvider"
  /\ SelectProvider(GIT_AND_MOCK) = "GitAndMockProvider"
  /\ \A st \in SourceTypeValues \ KnownSourceTypes : SelectProvider(st) = "raise"
  /\ Range(plog) \cap DownloadSteps # {} => task.source_type \in {SRPM_LINK, SRPM_UPLOAD}
  /\ Range(plog) \cap GitSteps # {} => task.source_type \in {GIT_AND_TITO, GIT_AND_MOCK}
  /\ last.step = "listdir" => task.source_type = GIT_AND_MOCK
  /\ (task.source_type \notin KnownSourceTypes /\ stages # << >>) =>
       /\ stages = << [name |-> "source", result |-> "raised"] >>
       /\ cause = "select"
       /\ pc = "except" => exc.type = "PackageImportException"
       /\ plog = << >>
       /\ last = NoCall
       /\ dirs \subseteq {"tmp_root"}
       /\ ~srpm_file

\* C13 witness: do_import was given a task of a type outside the
\* enumeration; the selection raised and the failure was posted.
C13_Witness ==
  /\ pc = "finally"
  /\ task.source_type = UNKNOWN_TYPE
  /\ cause = "select"
  /\ plog = << >>
  /\ FailurePosts = {1}
  /\ posts[1].data.error = "git_import_failed"


\* the names of FileNames that end in ".src.rpm"
SrcRpmNames == { <<"pkg-1", "src", "rpm">>, <<"other-2", "src", "rpm">> }

\* the step the provider ran last
LastStep == IF plog = << >> THEN "none" ELSE plog[Len(plog)]

\* the task failed, or is failing, with error kind k
FailingWith(k) ==
  /\ pc \in {"except", "finally"}
  /\ pc = "except" => ExceptKind(exc) = k
  /\ pc = "finally" => (FailurePosts # {} /\ \A i \in FailurePosts : posts[i].data.error = k)

\* C14, as claimed: the extraction succeeds and writes target_path exactly
\* when tmp_dest holds exactly one name ending in ".src.rpm"; otherwise it
\* raises the build error and writes nothing.
C14_CopySucceedsIffExactlyOne ==
  LastStep = "copy" =>
    LET n == Cardinality(tmp_dest \cap SrcRpmNames)
    IN /\ n = 1 <=> (pc = "clean" /\ srpm_file)
       /\ n # 1 => (FailingWith("tito_srpm_build_error") /\ ~srpm_file)

\* C14: the extraction attempts the copy to target_path exactly when tmp_dest
\* holds exactly one name ending in ".src.rpm", whatever else it holds, and
\* then succeeds unless the copy itself raises, which is not the build error
\* and may leave a part of the file at target_path; with no such name or with
\* several it raises the build error and writes nothing to target_path.
C14_CopyAttemptedIffExactlyOne ==
  LastStep = "copy" =>
    LET n == Cardinality(tmp_dest \cap SrcRpmNames)
    IN /\ n = 1 <=> last.copyfile # "not_run"
       /\ n # 1 => (FailingWith("tito_srpm_build_error") /\ cause = "copy" /\ ~srpm_file)
       /\ last.copyfile = "ok" <=> (pc = "clean" /\ srpm_file)
       /\ last.copyfile \in {"open_error", "write_error"} =>
            /\ FailingWith("unknown_error")
            /\ cause = "copyfile"
            /\ srpm_file => last.copyfile = "write_error"

\* C14 witness: the one source package was copied out of a directory that
\* also holds a binary package, a signature of the source package and a log.
C14_Witness ==
  /\ pc = "clean"
  /\ LastStep = "copy"
  /\ tmp_dest = FileNames \ { <<"other-2", "src", "rpm">> }
  /\ srpm_file


\* C15: when the tito process cannot be launched or exits with a non-zero
\* code, the build stage fails with tito_srpm_build_error and the extraction
\* is not reached.
C15_TitoBuildFailsOnNonZeroExit ==
  ( /\ task.source_type = GIT_AND_TITO
    /\ last.step = "build"
    /\ last.r.oserror \/ last.r.returncode # 0 )
  => (FailingWith("tito_srpm_build_error") /\ cause = "build" /\ pc # "copy")


\* the last external call was the process of step s, and it wrote to its
\* standard error
WroteToStderr(s) == last.step = s /\ ~last.r.oserror /\ last.r.error

\* C16: standard error output of the clone, checkout or tito build process
\* makes that step fail with its own kind, whatever the exit code.
C16_StderrFailsStage ==
  /\ WroteToStderr("clone") =>
       (FailingWith("git_clone_failed") /\ cause = "clone")
  /\ WroteToStderr("checkout") =>
       (FailingWith("tito_git_checkout_error") /\ cause = "checkout")
  /\ (task.source_type = GIT_AND_TITO /\ WroteToStderr("build")) =>
       (FailingWith("tito_srpm_build_error") /\ cause = "build")

\* C16 witness: the checkout of a branch exited with code 0 after writing
\* to standard error, and the task failed with the checkout kind.
C16_Witness ==
  /\ pc = "finally"
  /\ last = [step |-> "checkout", r |-> [oserror |-> FALSE, error |-> TRUE, returncode |-> 0]]
  /\ cause = "checkout"
  /\ FailurePosts = {1}
  /\ posts[1].data.error = "tito_git_checkout_error"


\* positions of the importer outside do_import
OutsideDoImport == {"idle", "loop", "poll", "sleep", "do_import", "exited", "crashed"}

\* C17: the download succeeds only with a status from 200 to 399 and a file
\* fully written; a transport failure, any other status or a write failure
\* raises the download error: the failure payload srpm_download_failed is
\* posted for the task, the package is not inspected, and once do_import
\* has returned no file is left at the target path.
C17_DownloadFailureHandled ==
  /\ last.step = "download" =>
       LET good == last.get = "ok" /\ last.status \in 200 .. 399 /\ last.write = "ok"
       IN /\ good <=> (pc = "query" /\ srpm_file /\ StageOk("source"))
          /\ ~good =>
               /\ FailingWith("srpm_download_failed")
               /\ cause = "download"
               /\ \A i \in DOMAIN stages : stages[i].name # "inspect"
               /\ pc = "finally" =>
                    /\ Len(posts) = 1
                    /\ posts[1].data = [task_id |-> task.task_id,
                                        error |-> "srpm_download_failed"]
  /\ pc \in OutsideDoImport => (~srpm_file /\ "tmp_root" \notin dirs)

\* C17 witness: the server answered 404; the failure payload was posted and
\* nothing was written.
C17_Witness ==
  /\ pc = "finally"
  /\ last = [step |-> "download", get |-> "ok", status |-> 404, write |-> "not_run"]
  /\ posts = << [data |-> [task_id |-> lastjob.task_id, error |-> "srpm_download_failed"],
                 ok |-> TRUE] >>
  /\ ~srpm_file


\* the blanks of a query output
Blanks == {" ", "\t"}

\* the whitespace-delimited tokens of a query output
Tokens(output) == SelectSeq(output, LAMBDA a : a \notin Blanks)

\* C18: the package query returns a name and an evr only when its output is
\* exactly four whitespace-delimited tokens NAME EPOCH VERSION RELEASE, and
\* raises the query error for every other output; the evr is
\* epoch:version-release for a numeric epoch and version-release for the
\* unset epoch.
C18_QueryNeedsFourTokens ==
  last.step = "query" =>
    LET toks == Tokens(last.output)
    IN /\ StageOk("inspect") =>
            /\ Len(toks) = 4
            /\ task.package_name = toks[1]
            /\ toks[2] \in DigitTokens =>
                 task.package_version = toks[2] \o ":" \o toks[3] \o "-" \o toks[4]
            /\ toks[2] = "(none)" => task.package_version = toks[3] \o "-" \o toks[4]
       /\ Len(toks) # 4 => (FailingWith("srpm_query_failed") /\ cause = "query")


\* the jobs of list q other than the job of the task being processed
OtherJobs(q) == SelectSeq(q, LAMBDA j : j # task.task_id)

\* C19: a poll is made only from the head of the loop, once per iteration;
\* with no job in the response the loop sleeps and nothing is processed;
\* with jobs in the response only builds[0] is decoded and processed, and
\* the processing leaves every other job on the list as it was.
C19_OnePollOneJob ==
  [][ /\ pc' = "poll" => pc \in {"loop", "poll"}
      /\ polls' # polls =>
           /\ pc = "poll"
           /\ polls' = polls + 1
           /\ pc' \in {"sleep", "do_import"}
           /\ queue' = queue
           /\ lastjob' = NoJob \/ (queue # << >> /\ lastjob'.task_id = queue[1])
           /\ pc' = "do_import" => (queue # << >> /\ task'.task_id = queue[1])
           /\ queue = << >> => (pc' = "sleep" /\ lastjob' = NoJob /\ task' = NoTask)
      /\ pc' = "sleep" => (posts' = << >> /\ stages' = << >> /\ plog' = << >>)
      /\ pc = "sleep" => (pc' \in {"sleep", "loop"} /\ UNCHANGED << queue, taskvars >>)
      /\ submitted' = submitted => OtherJobs(queue') = OtherJobs(queue)
    ]_vars

\* C19 witness: of two jobs on the list the first was processed and its
\* success delivered; the second is still on the list and was never decoded.
C19_Witness ==
  /\ pc = "finally"
  /\ terminal = "NOTIFIED"
  /\ lastjob.task_id = 1
  /\ head.task_id = 1
  /\ queue = << 2 >>


\* no element occurs twice in sequence f
NoRepeat(f) == \A i, j \in DOMAIN f : f[i] = f[j] => i = j

\* C20: within one run of do_import no stage and no provider step is run a
\* second time, the success payload and the failure payload are each posted
\* at most once, and do_import ends by returning to the loop.
C20_NoStageRetried ==
  /\ NoRepeat([i \in DOMAIN stages |-> stages[i].name])
  /\ NoRepeat(plog)
  /\ Cardinality(SuccessPosts) <= 1
  /\ Cardinality(FailurePosts) <= 1
  /\ pc = "finally" => exc = NoExc
  /\ pc # "crashed"

\* C20 witness: every stage ran once, the success post raised and the
\* failure payload was posted once after it.
C20_Witness ==
  /\ pc = "finally"
  /\ plog = << "download" >>
  /\ [i \in DOMAIN stages |-> stages[i].name] = StageOrder
  /\ cause = "post"
  /\ Len(posts) = 2
  /\ SuccessPosts = {1}
  /\ FailurePosts = {2}


\* the steps in which the source provider is selected and the SRPM produced
SourceCauses ==
  {"select", "download", "clone", "dirname", "checkout", "build", "listdir", "mock_launch",
   "copy", "copyfile"}

\* C21: for a task taken from the polling loop, git_import_failed is posted
\* only when the import routine itself raised its import error; a failure of
\* the provider selection or of the SRPM production posts another kind.
C21_ImportKindOnlyFromImport ==
  /\ \A i \in FailurePosts :
       posts[i].data.error = "git_import_failed" =>
         /\ cause = "import"
         /\ StageOk("source")
         /\ StageOk("inspect")
         /\ \E k \in DOMAIN stages : stages[k] = [name |-> "import", result |-> "raised"]
  /\ cause \in SourceCauses =>
       \A i \in FailurePosts : posts[i].data.error # "git_import_failed"

\* C21 witness: the import routine failed for a task of the loop and
\* git_import_failed was posted for it.
C21_Witness ==
  /\ pc = "finally"
  /\ polls > 0
  /\ cause = "import"
  /\ FailurePosts = {1}
  /\ posts[1].data = [task_id |-> lastjob.task_id, error |-> "git_import_failed"]


\* C22: the stop request changes nothing but is_running; when it arrives
\* while a task is being processed the processing goes on, the task reaches
\* NOTIFIED or FAILED before the loop is left, no further poll is made, and
\* the loop is left only from the test of its condition.
C22_StopDoesNotInterrupt ==
  [][ /\ (is_running /\ ~is_running') => UNCHANGED << pc, queue, polls, terminal, taskvars >>
      /\ pc' = "exited" => (pc = "loop" /\ ~is_running)
      /\ stopped_at = "task" =>
           /\ polls' = polls
           /\ pc' \notin {"poll", "sleep", "do_import"}
           /\ pc \in Processing \ {"finally"} => pc' \in Processing
           /\ pc' \in {"loop", "exited"} => terminal' \in {"NOTIFIED", "FAILED"}
    ]_vars

\* C22 witness: the stop request arrived during the processing of the first
\* task; the task was imported and reported, and the loop was left after it.
C22_Witness ==
  /\ pc = "exited"
  /\ stopped_at = "task"
  /\ polls = 1
  /\ terminal = "NOTIFIED"



\* The temporary directories that do_import and git_import_srpm create
\* themselves (the providers' directories are the subject of C5).
OrchestratorDirs == {"tmp_root", "import_tmp"}

\* C23: the scratch directory of git_import_srpm exists only between its
\* mkdtemp and its finally clause, whether the import returned or raised;
\* tmp_root and the fetched SRPM in it are gone when do_import has returned
\* or let an exception through; so at every point outside do_import none of
\* the orchestrator's directories exists, and no directory of the
\* orchestrator is ever among those left behind for a later task.
C23_OrchestratorDirsRemoved ==
  /\ [](/\ "import_tmp" \in dirs => pc = "import_finally"
        /\ pc \in OutsideDoImport => (dirs \cap OrchestratorDirs = {} /\ ~srpm_file)
        /\ pc \in Processing \ OutsideDoImport => "tmp_root" \in dirs)
  /\ [][ /\ (pc = "import_finally" /\ pc' # pc) => "import_tmp" \notin dirs'
         /\ (pc = "finally" /\ pc' # pc) => "tmp_root" \notin dirs'
         /\ (~leaked /\ leaked') => dirs \cap OrchestratorDirs = {}
       ]_vars

\* C23 witness: the import routine raised, git_import_srpm's scratch
\* directory is gone while the exception is on its way to the handlers, and
\* only tmp_root is left of the orchestrator's directories.
C23_Witness ==
  /\ pc = "except"
  /\ cause = "import"
  /\ exc.type = "PackageImportException"
  /\ dirs \cap OrchestratorDirs = {"tmp_root"}


\* the stage of GitProvider.get_srpm that a logged provider step belongs to
GitStageOf(e) ==
  IF e \in {"clone", "dirname"} THEN "clone"
  ELSE IF e \in {"checkout", "checkout_skipped"} THEN "checkout"
  ELSE IF e \in {"build", "build_not_run"} THEN "build"
  ELSE e

GitStageOrder == << "clone", "checkout", "build", "copy", "clean" >>

\* the error kinds that belong to a stage of get_srpm
GitStageKinds(s) ==
  IF s = "clone" THEN {"git_clone_failed", "tito_wrong_directory_in_git"}
  ELSE IF s = "checkout" THEN {"tito_git_checkout_error"}
  ELSE IF s \in {"build", "copy"} THEN {"tito_srpm_build_error"}
  ELSE {}

\* the stages of get_srpm entered so far, in the order they were entered
GitStagesRun ==
  LET steps == SelectSeq(plog, LAMBDA e : e # "dirname")
  IN [i \in DOMAIN steps |-> GitStageOf(steps[i])]

\* C24: the stages of GitProvider.get_srpm are entered in the order clone,
\* checkout, build, copy, clean, a stage only after the one before it has
\* returned; the first stage that fails raises GitAndTitoException with a kind
\* of that stage, and it is the last stage entered.
C24_GitStagesInOrder ==
  Range(plog) \cap GitSteps # {} =>
    /\ GitStagesRun = SubSeq(GitStageOrder, 1, Len(GitStagesRun))
    /\ "dirname" \in Range(plog) => (plog[1] = "clone" /\ plog[2] = "dirname")
    /\ (\E i \in DOMAIN stages : stages[i].name = "source" /\ stages[i].result = "raised") =>
         /\ \E k \in GitStageKinds(GitStageOf(LastStep)) : FailingWith(k)
         /\ pc = "except" => exc.type = "GitAndTitoException"


\* C25: after the listing of the scratch directory the clone stage has
\* succeeded, with git_subdir set to scratch/<entry>/<subdir>, only if the
\* listing has exactly one entry; with no entry or with several it fails with
\* tito_wrong_directory_in_git, and neither checkout nor build is run.
C25_DirNameNeedsOneEntry ==
  last.step = "dirname" =>
    LET n == Len(last.entries)
    IN /\ cause # "dirname" =>
            /\ n = 1
            /\ git_subdir = << "git_tmp" >> \o last.entries[1] \o << "tito_git_dir" >>
            /\ pc \in {"checkout", "build"}
       /\ n # 1 =>
            /\ FailingWith("tito_wrong_directory_in_git")
            /\ cause = "dirname"
       /\ cause = "dirname" =>
            /\ git_subdir = << >>
            /\ LastStep = "dirname"
            /\ Range(plog) \cap {"checkout", "checkout_skipped", "build", "build_not_run"} = {}

\* C25 witness: the listing had two entries; the task failed with
\* tito_wrong_directory_in_git after the clone and the listing only.
C25_Witness ==
  /\ pc = "finally"
  /\ last.step = "dirname"
  /\ Len(last.entries) = 2
  /\ plog = << "clone", "dirname" >>
  /\ FailingWith("tito_wrong_directory_in_git")


\* C26: in a clone that has a branch checked out, the checkout stage runs
\* git checkout exactly when the task names a branch and that branch is not
\* the one the clone has checked out, the repository's default; and after a
\* checkout that could not be launched, wrote to its standard error or
\* exited with a non-zero code, the task fails with tito_git_checkout_error
\* and the build is not run.
C26_CheckoutIffNonDefaultBranch ==
  /\ [][ (pc = "checkout" /\ pc' # "checkout" /\ repo_head \in RepoDefaults) =>
           ( plog'[Len(plog')] = "checkout"
               <=> (task.git_branch # "" /\ task.git_branch # repo_head) )
       ]_vars
  /\ []( ( /\ last.step = "checkout"
           /\ last.r.oserror \/ last.r.error \/ last.r.returncode # 0 )
         => ( /\ FailingWith("tito_git_checkout_error")
              /\ cause = "checkout"
              /\ Range(plog) \cap {"build", "build_not_run"} = {} ) )


\* C27: mock is run only when the source subdirectory holds exactly one file
\* whose name ends in ".spec"; with none or several the build error is raised
\* without running it; a non-zero exit of mock raises the build error; and
\* after a zero exit the pipeline goes on to the extraction whatever mock
\* wrote to its standard error.
C27_MockBuildBySpecAndExitCode ==
  LET spec_files(listing) == {f \in listing : f[Len(f)] = "spec"}
  IN /\ (task.source_type = GIT_AND_MOCK /\ LastStep = "build") =>
          /\ last.step = "build"
          /\ Cardinality(spec_files(last.listing)) = 1
     /\ (task.source_type = GIT_AND_MOCK /\ LastStep = "build_not_run") =>
          /\ last.step = "listdir"
          /\ pc \in {"except", "finally"}
     /\ (last.step = "listdir" /\ cause # "listdir") =>
          /\ Cardinality(spec_files(last.listing)) # 1
          /\ LastStep = "build_not_run"
          /\ FailingWith("tito_srpm_build_error")
     /\ (task.source_type = GIT_AND_MOCK /\ last.step = "build" /\ ~last.r.oserror) =>
          /\ last.r.returncode # 0 =>
               (FailingWith("tito_srpm_build_error") /\ cause = "build" /\ LastStep = "build")
          /\ last.r.returncode = 0 => (pc = "copy" /\ exc = NoExc)

\* C27 witness: mock was run on the one spec file, wrote to its standard
\* error and exited with 0; the extraction is next.
C27_Witness ==
  /\ task.source_type = GIT_AND_MOCK
  /\ pc = "copy"
  /\ last.step = "build"
  /\ last.r.error
  /\ last.r.returncode = 0
  /\ last.listing = {<<"pkg", "spec">>, <<"pkg", "spec", "in">>}


\* the steps of produce_srpm that run the source preparation tool or mock
SandboxSteps == {"prepare", "copyout", "scrub", "build_srpm"}

\* C28: with a hook payload URL, no sandbox step is run before the payload
\* has been fetched and written completely; and after a transport failure
\* (of the request or of the transfer of the body) or an answer whose status
\* is not 2xx produce_srpm has raised with no sandbox step run.
C28_HookPayloadBeforeSandbox ==
  /\ (cp_conf.hook_data /\ Range(cp_log) \cap SandboxSteps # {}) =>
       /\ cp_log[1] = "get_hook_payload"
       /\ "hook_payload" \in cp_files
       /\ "--hook-payload-file" \in cp_cmd
  /\ ( /\ cp_last.step = "get_hook_payload"
       /\ \/ cp_last.get = "raise"
          \/ cp_last.status \notin 200 .. 299
          \/ cp_last.body \in {"broken", "timed_out", "undecodable"} )
     => ( /\ cp_pc = "raised"
          /\ Range(cp_log) \cap SandboxSteps = {}
          /\ cp_sandbox = "absent" )


CustomOrder == << "prepare", "copyout", "scrub", "build_srpm", "rmtree" >>

\* C29: after the optional fetch of the hook payload, produce_srpm runs the
\* source preparation, the copy-out, the scrub, the SRPM build and the
\* removal of the staging directory in this order; a step whose command
\* exits with a non-zero code or cannot be run ends produce_srpm with an
\* exception, and no later step is run; produce_srpm returns only after all
\* five.
C29_CustomStepsInOrder ==
  LET steps == SelectSeq(cp_log, LAMBDA e : e # "get_hook_payload")
  IN /\ steps = SubSeq(CustomOrder, 1, Len(steps))
     /\ cp_last.step \in SandboxSteps =>
          /\ cp_log[Len(cp_log)] = cp_last.step
          /\ cp_last.r # "zero" =>
               (cp_pc = "raised" /\ cp_exc # NoExc /\ cp_exc.arg = cp_last.step)
          /\ cp_last.r = "zero" => (cp_pc # "raised" /\ cp_exc = NoExc)
     /\ cp_pc = "returned" => (steps = CustomOrder /\ cp_exc = NoExc)

\* C29 witness: mock --scrub exited with a non-zero code after the
\* preparation and the copy-out; produce_srpm has raised, and neither the
\* SRPM build nor the removal of the staging directory was run.
C29_Witness ==
  /\ cp_pc = "raised"
  /\ cp_last = [step |-> "scrub", r |-> "nonzero"]
  /\ SelectSeq(cp_log, LAMBDA e : e # "get_hook_payload") = << "prepare", "copyout", "scrub" >>


\* the request is handled by process_new_build
FeNew == fe_request.view = "new_build"

\* process_new_build has returned or has let an exception through
FeEnded == FeNew /\ fe_pc \in {"returned", "raised"}

\* the messages flashed while the request is handled
FeRequestFlashes == SubSeq(fe_flashes, fe_request.base + 1, Len(fe_flashes))

FeFlashed(c) == \E k \in DOMAIN FeRequestFlashes : FeRequestFlashes[k].category = c

\* the builds a submission asks for
FeAllBuilds ==
  { NewBuild(BuildId(fe_request.n, k), build_options(fe_form)) : k \in 1 .. fe_form.pkgs }

\* the builds of the submission that are in the database
FeCreated == { b \in fe_db : b.id > BuildId(fe_request.n, 0) }

\* the factory made all its create calls and returned
FeFactoryReturned == fe_i = fe_form.pkgs + 1

\* what holds of every ended request whatever the factory did: an invalid
\* form gets the form rendered again with no build touched, and the builds
\* in the database are all the builds of the submission or none of them
FeCommon ==
  /\ FeNew =>
       /\ FeCreated \in {{}, FeAllBuilds}
       /\ fe_calls \in {<< >>, << "commit" >>, << "commit_failed" >>, << "rollback" >>}
  /\ (FeEnded /\ ~fe_form.valid) =>
       /\ fe_response = "form"
       /\ FeCreated = {} /\ fe_session = {} /\ fe_calls = << >>
       /\ FeRequestFlashes = << >>
  /\ (FeEnded /\ fe_exc.type \in HandledExceptions) =>
       /\ fe_calls = << "rollback" >>
       /\ FeCreated = {} /\ fe_session = {}
       /\ FeFlashed("error") /\ ~FeFlashed("success")
       /\ fe_response = "redirect"

\* C30, as claimed: with a valid form the session is committed exactly when
\* the factory raised none of the three handled exceptions and is rolled
\* back with an error message when it raised one of them, and in both cases
\* the response is the redirect.
C30_CommitIffNoneOfThree ==
  /\ FeCommon
  /\ (FeEnded /\ fe_form.valid) =>
       /\ fe_calls = << "commit" >> <=> fe_exc.type \notin HandledExceptions
       /\ fe_response = "redirect"

\* C30: with a valid form db.session.commit() is called exactly when the
\* factory returned; when the commit returns, every build of the submission
\* is in the database, a success message and no error message was flashed
\* and the response is the redirect; the session is rolled back, with an
\* error message and no success message, when the factory raised one of the
\* three handled exceptions, and the response is the redirect as well; any
\* other exception of the factory, and an exception of the commit, leaves
\* process_new_build with no rollback, no error message, no response and no
\* build of the submission in the database, the factory's exception with no
\* commit and no message at all, the commit's exception after the success
\* messages of the URL factory.
C30_CommitIffFactoryReturned ==
  /\ FeCommon
  /\ (FeEnded /\ fe_form.valid) =>
       /\ FeFactoryReturned <=> fe_calls \in {<< "commit" >>, << "commit_failed" >>}
       /\ fe_calls = << "commit" >> <=> fe_exc = NoExc
       /\ fe_exc = NoExc =>
            /\ FeCreated = FeAllBuilds
            /\ fe_response = "redirect"
            /\ FeFlashed("success") /\ ~FeFlashed("error")
       /\ (fe_exc # NoExc /\ fe_exc.type \notin HandledExceptions) =>
            /\ fe_pc = "raised"
            /\ fe_response = "none"
            /\ FeCreated = {}
            /\ ~FeFlashed("error")
            /\ fe_calls = IF fe_exc.arg = "commit" THEN << "commit_failed" >> ELSE << >>
            /\ fe_exc.arg # "commit" => FeRequestFlashes = << >>
            /\ fe_exc.arg = "commit" => (FeFlashed("success") <=> fe_form.factory = "url")
       /\ fe_pc = "raised" <=> (fe_exc # NoExc /\ fe_exc.type \notin HandledExceptions)

\* C30 witness: the second package of a URL submission was refused with
\* InsufficientRightsException after the first build had been added; the
\* session was rolled back and the redirect returned, with no build kept.
C30_Witness ==
  /\ fe_pc = "returned"
  /\ FeNew
  /\ fe_form = [factory |-> "url", valid |-> TRUE, pkgs |-> 2, enable_net |-> TRUE]
  /\ fe_i = 2
  /\ fe_exc.type = "InsufficientRightsException"
  /\ fe_calls = << "rollback" >>
  /\ FeCreated = {}
  /\ fe_db = StoredBuilds
  /\ fe_response = "redirect"

====
